---- MODULE Spec2Model ----
(***************************************************************************)
(* Billing engine of the MoveInSync platform: the per-model cost           *)
(* strategies, the trip/contract context resolver, the service facade,     *)
(* the pooled-connection request dependency and the active-contract cache. *)
(*                                                                         *)
(* Money is held in thousandths of a currency unit ("milli") before        *)
(* rounding and in hundredths ("cents") after round(x, 2).  Timestamps are *)
(* whole hours since an epoch; the hour of day is the timestamp modulo 24. *)
(***************************************************************************)
EXTENDS Integers, Sequences, FiniteSets, TLC

VARIABLES
    calcIn,     \* arguments of the strategy call under test (trip, model, rules)
    calcOut,    \* CalculationResult of that call, or NoResult
    trips,      \* table trips: trip id -> row, NoRow when absent
    versions,   \* table contract_versions: version id -> row
    conns,      \* pooled connections: id -> [status, where]
    started,    \* the startup hook _ensure_users_table_and_seed has run
    reqs,       \* API requests: id -> [pc, conn, outcome, puts]
    cache,      \* lru_cache of get_cached_active_contract, oldest first
    hist,       \* per tenant: the last no-connection get_active_contract result
    used,       \* tenants in the order of their latest successful cached call
    calls,      \* concurrent no-connection calls: id -> [pc, client_id, val]
    runs,       \* strategy calls in flight: id -> [pc, input, cost, inc, out]
    last        \* record of the most recent service call or pool release

vars ==
    <<calcIn, calcOut, trips, versions, conns, started, reqs, cache, hist, used,
      calls, runs, last>>

-----------------------------------------------------------------------------
(* JSON values as psycopg2 hands them over from a JSONB column. *)

JNull == [t |-> "null"]
JNum(n) == [t |-> "num", n |-> n]
JStr(s) == [t |-> "str", s |-> s]
JObj(o) == [t |-> "obj", o |-> o]

IsNum(v) == v.t = "num"

\* Python truthiness of a JSON value, as used by `x or 0.0`.
Falsy(v) ==
    \/ v.t = "null"
    \/ v.t = "num" /\ v.n = 0
    \/ v.t = "str" /\ v.s = ""
    \/ v.t = "obj" /\ DOMAIN v.o = {}

OrZero(v) == IF Falsy(v) THEN JNum(0) ELSE v

-----------------------------------------------------------------------------
(* schemas.py *)

BillingModelType == {"PER_TRIP", "FIXED_PACKAGE", "HYBRID"}

NumericFields ==
    {"base_monthly_fee", "free_km_included", "night_shift_surcharge",
     "per_km_rate_after_limit", "base_fare", "cost_per_km", "cost_per_minute",
     "min_fare", "package_price", "included_km", "overage_per_km"}

ConfigFields == {"currency", "incentive_rules"} \cup NumericFields

FieldDefault(k) ==
    IF k = "currency" THEN JStr("USD")
    ELSE IF k = "incentive_rules" THEN JNull
    ELSE JNum(0)

ContractRuleConfig(given) ==
    [k \in ConfigFields |-> IF k \in DOMAIN given THEN given[k] ELSE FieldDefault(k)]

TripData(trip_id, distance_km, duration_minutes, start_hour, is_carpool) ==
    [trip_id |-> trip_id, distance_km |-> distance_km,
     duration_minutes |-> duration_minutes, start_hour |-> start_hour,
     vehicle_type |-> "Standard", is_carpool |-> is_carpool]

-----------------------------------------------------------------------------
(* service.py: create_config_safe *)

Raised(e) == [ok |-> FALSE, err |-> e]
Returned(v) == [ok |-> TRUE, val |-> v]

create_config_safe(data) ==
    IF data.t # "obj" THEN Raised("AttributeError")   \* data.items() on a non-dict
    ELSE LET valid_keys == ConfigFields
             filtered == [k \in (DOMAIN data.o) \cap valid_keys |-> data.o[k]]
         IN  Returned(ContractRuleConfig(filtered))

-----------------------------------------------------------------------------
(* strategies.py *)

MilliPerCent == 10

\* round(num/den) to the nearest integer, ties to even: Python's round() on a
\* value whose decimal expansion is exact.
RoundHalfEven(num, den) ==
    LET q == num \div den
        r == num % den
    IN  IF 2 * r < den THEN q
        ELSE IF 2 * r > den THEN q + 1
        ELSE IF q % 2 = 0 THEN q ELSE q + 1

\* round(x, 2) of an amount in milli, as cents.
Round2(milli) == RoundHalfEven(milli, MilliPerCent)

\* BillingStrategy.apply_tax: round(base_cost * 0.18, 2), base_cost in milli.
TaxRatePercent == 18

apply_tax(base_cost) == RoundHalfEven(base_cost * TaxRatePercent, 100 * MilliPerCent)

\* float(inv.get('carpool_bonus', 0.0) or 0.0) under `if is_carpool`, then
\* `if carpool_bonus:`; the incentive in milli, or an error.
CarpoolIncentive(trip, rules) ==
    IF ~trip.is_carpool THEN Returned(0)
    ELSE LET inv == IF Falsy(rules["incentive_rules"]) THEN JObj(<<>>)
                    ELSE rules["incentive_rules"]
         IN  IF inv.t # "obj" THEN Raised("AttributeError")
             ELSE LET raw == IF "carpool_bonus" \in DOMAIN inv.o
                             THEN OrZero(inv.o["carpool_bonus"]) ELSE JNum(0)
                  IN  IF raw.t = "num" THEN Returned(raw.n)
                      ELSE IF raw.t = "str" THEN Raised("ValueError")
                      ELSE Raised("TypeError")

IncentiveBreakdown(inc) == IF inc # 0 THEN [carpool_bonus |-> inc] ELSE <<>>

CalculationResult(trip, model, cost, tax, total, inc) ==
    Returned([trip_id |-> trip.trip_id, billing_model |-> model,
              base_cost |-> cost, tax_amount |-> tax, total_cost |-> total,
              employee_incentive |-> Round2(inc),
              incentive_breakdown |-> IncentiveBreakdown(inc)])

\* Defect variant of HybridStrategy: the night window opens after hour 20.
HybridStrategyLateNight(trip, rules) ==
    LET is_night_shift == trip.start_hour > 20 \/ trip.start_hour < 6
        surcharge == IF is_night_shift THEN OrZero(rules["night_shift_surcharge"])
                     ELSE JNum(0)
        km_rate == OrZero(rules["per_km_rate_after_limit"])
        incentive == CarpoolIncentive(trip, rules)
    IN  IF ~IsNum(surcharge) \/ ~IsNum(km_rate) THEN Raised("TypeError")
        ELSE IF ~incentive.ok THEN incentive
        ELSE LET cost == surcharge.n + trip.distance_km * km_rate.n
                 tax == apply_tax(cost)
                 total == Round2(cost + tax * MilliPerCent + incentive.val)
             IN  CalculationResult(trip, "HYBRID", Round2(cost), tax, total,
                                   incentive.val)

HybridStrategy(trip, rules) ==
    LET is_night_shift == trip.start_hour >= 20 \/ trip.start_hour < 6
        surcharge == IF is_night_shift THEN OrZero(rules["night_shift_surcharge"])
                     ELSE JNum(0)
        km_rate == OrZero(rules["per_km_rate_after_limit"])
        incentive == CarpoolIncentive(trip, rules)
    IN  IF ~IsNum(surcharge) \/ ~IsNum(km_rate) THEN Raised("TypeError")
        ELSE IF ~incentive.ok THEN incentive
        ELSE LET cost == surcharge.n + trip.distance_km * km_rate.n
                 tax == apply_tax(cost)
                 total == Round2(cost + tax * MilliPerCent + incentive.val)
             IN  CalculationResult(trip, "HYBRID", Round2(cost), tax, total,
                                   incentive.val)

\* Defect variant of PerTripStrategy: the base fare is left out of the
\* subtotal.
PerTripStrategyDistanceOnly(trip, rules) ==
    LET rate == OrZero(rules["cost_per_km"])
        incentive == CarpoolIncentive(trip, rules)
    IN  IF ~IsNum(rate) THEN Raised("TypeError")
        ELSE IF ~incentive.ok THEN incentive
        ELSE LET subtotal == trip.distance_km * rate.n
                 tax == apply_tax(subtotal)
                 total == Round2(subtotal + tax * MilliPerCent + incentive.val)
             IN  CalculationResult(trip, "PER_TRIP", Round2(subtotal), tax, total,
                                   incentive.val)

PerTripStrategy(trip, rules) ==
    LET rate == OrZero(rules["cost_per_km"])
        base == OrZero(rules["base_fare"])
        incentive == CarpoolIncentive(trip, rules)
    IN  IF ~IsNum(rate) \/ ~IsNum(base) THEN Raised("TypeError")
        ELSE IF ~incentive.ok THEN incentive
        ELSE LET subtotal == base.n + trip.distance_km * rate.n
                 tax == apply_tax(subtotal)
                 total == Round2(subtotal + tax * MilliPerCent + incentive.val)
             IN  CalculationResult(trip, "PER_TRIP", Round2(subtotal), tax, total,
                                   incentive.val)

\* Defect variant of FixedPackageStrategy: the package price is charged on
\* the trip and taxed.
FixedPackageStrategyCharged(trip, rules) ==
    LET incentive == CarpoolIncentive(trip, rules)
        price == OrZero(rules["package_price"])
    IN  IF ~incentive.ok THEN incentive
        ELSE CalculationResult(trip, "FIXED_PACKAGE", Round2(price.n),
                               apply_tax(price.n),
                               Round2(price.n + apply_tax(price.n) * MilliPerCent
                                      + incentive.val),
                               incentive.val)

FixedPackageStrategy(trip, rules) ==
    LET incentive == CarpoolIncentive(trip, rules)
    IN  IF ~incentive.ok THEN incentive
        ELSE CalculationResult(trip, "FIXED_PACKAGE", 0, 0, Round2(incentive.val),
                               incentive.val)

\* StrategyFactory.get_strategy(model_type).calculate_cost(trip, rules)
calculate_cost(model_type, trip, rules) ==
    IF model_type = "PER_TRIP" THEN PerTripStrategy(trip, rules)
    ELSE IF model_type = "FIXED_PACKAGE" THEN FixedPackageStrategy(trip, rules)
    ELSE HybridStrategy(trip, rules)

-----------------------------------------------------------------------------
(* Storage: the tables the repository's SQL reads and writes. *)

NoRow == [none |-> TRUE]
NoTime == -1

Tenants == {"c1", "c2", "c3"}

\* contracts(id, client_id, vendor_id): the seeded contracts.
Contracts ==
    { [id |-> "k1", client_id |-> "c1", vendor_id |-> "v1"],
      [id |-> "k2", client_id |-> "c2", vendor_id |-> "v1"],
      [id |-> "k3", client_id |-> "c3", vendor_id |-> "v2"] }

RulesHybrid ==
    JObj([night_shift_surcharge |-> JNum(20000),
          per_km_rate_after_limit |-> JNum(5000),
          legacy_rate |-> JNum(7000)])

RulesPerTrip ==
    JObj([base_fare |-> JNum(30000), cost_per_km |-> JNum(12000),
          incentive_rules |-> JObj([carpool_bonus |-> JNum(50000)])])

RulesPackage ==
    JObj([package_price |-> JNum(5000000),
          incentive_rules |-> JObj([carpool_bonus |-> JNum(50000)])])

RulesBadRate == JObj([per_km_rate_after_limit |-> JStr("abc")])

\* contract_versions as seeded: k1 has two consecutive versions, k2 one
\* open-ended version, k3 a version without rules and one with an unknown
\* billing-model tag and a non-numeric rate.
SeedVersions ==
    [b1 |-> [contract_id |-> "k1", valid_from |-> 5, valid_until |-> 20,
             billing_model |-> "hybrid", rules_config |-> RulesHybrid],
     b2 |-> [contract_id |-> "k1", valid_from |-> 21, valid_until |-> NoTime,
             billing_model |-> "PER_TRIP", rules_config |-> RulesPerTrip],
     b3 |-> [contract_id |-> "k2", valid_from |-> 0, valid_until |-> NoTime,
             billing_model |-> "Fixed_Package", rules_config |-> RulesPackage],
     b4 |-> [contract_id |-> "k3", valid_from |-> 0, valid_until |-> 15,
             billing_model |-> "HYBRID", rules_config |-> JNull],
     b5 |-> [contract_id |-> "k3", valid_from |-> 16, valid_until |-> NoTime,
             billing_model |-> "subscription", rules_config |-> RulesBadRate]]

VersionIds == DOMAIN SeedVersions

TripIds == {"t1", "t2", "t3", "t4", "t5", "t6", "t7"}

\* str.upper() on the billing-model tags that occur in storage.
Upper(s) ==
    CASE s = "hybrid" -> "HYBRID"
      [] s = "Fixed_Package" -> "FIXED_PACKAGE"
      [] s = "subscription" -> "SUBSCRIPTION"
      [] OTHER -> s

\* Defect variant of ToModelEnum: an unmatched tag falls back to the first
\* member of the enumeration.
ToModelEnumFirstMember(raw_model) ==
    IF raw_model \in BillingModelType THEN raw_model ELSE "PER_TRIP"

\* BillingModelType(raw_model), ValueError -> HYBRID
ToModelEnum(raw_model) ==
    IF raw_model \in BillingModelType THEN raw_model ELSE "HYBRID"

\* Defect variant of TripContextRows: the validity interval is not compared
\* with the trip's start time.
TripContextRowsAnyTime(trip_id, client_id) ==
    IF trips[trip_id] = NoRow THEN {}
    ELSE LET t == trips[trip_id]
         IN  { cv \in VersionIds :
                 \E c \in Contracts :
                     /\ t.client_id = c.client_id
                     /\ t.vendor_id = c.vendor_id
                     /\ c.id = versions[cv].contract_id
                     /\ t.client_id = client_id }

\* Defect variant of TripContextRows: the trip is not filtered by the
\* requesting client.
TripContextRowsAnyTenant(trip_id, client_id) ==
    IF trips[trip_id] = NoRow THEN {}
    ELSE LET t == trips[trip_id]
         IN  { cv \in VersionIds :
                 \E c \in Contracts :
                     /\ t.client_id = c.client_id
                     /\ t.vendor_id = c.vendor_id
                     /\ c.id = versions[cv].contract_id
                     /\ t.start_time >= versions[cv].valid_from
                     /\ \/ versions[cv].valid_until = NoTime
                        \/ t.start_time <= versions[cv].valid_until }

\* Defect variant of TripContextRows: the end of the validity interval is
\* excluded.
TripContextRowsExclusiveEnd(trip_id, client_id) ==
    IF trips[trip_id] = NoRow THEN {}
    ELSE LET t == trips[trip_id]
         IN  { cv \in VersionIds :
                 \E c \in Contracts :
                     /\ t.client_id = c.client_id
                     /\ t.vendor_id = c.vendor_id
                     /\ c.id = versions[cv].contract_id
                     /\ t.client_id = client_id
                     /\ t.start_time >= versions[cv].valid_from
                     /\ \/ versions[cv].valid_until = NoTime
                        \/ t.start_time < versions[cv].valid_until }

\* The rows of fetch_trip_context's SELECT: the versions cv joined to trip
\* trip_id of client client_id through a contract.
TripContextRows(trip_id, client_id) ==
    IF trips[trip_id] = NoRow THEN {}
    ELSE LET t == trips[trip_id]
         IN  { cv \in VersionIds :
                 \E c \in Contracts :
                     /\ t.client_id = c.client_id
                     /\ t.vendor_id = c.vendor_id
                     /\ c.id = versions[cv].contract_id
                     /\ t.client_id = client_id
                     /\ t.start_time >= versions[cv].valid_from
                     /\ \/ versions[cv].valid_until = NoTime
                        \/ t.start_time <= versions[cv].valid_until }

\* LIMIT 1 without ORDER BY: any one of the rows, here the row pref when it
\* is among them (pref ranges over all rows, so every choice occurs).
NoVersion == "none"

\* The versions that share a contract and some instant with another version:
\* the only rows between which an unordered LIMIT 1 has a choice.
Prefs ==
    LET until(cv) == IF versions[cv].valid_until = NoTime THEN 1000
                     ELSE versions[cv].valid_until
        overlapping ==
            { cv \in VersionIds :
                \E o \in VersionIds \ {cv} :
                    /\ versions[o].contract_id = versions[cv].contract_id
                    /\ versions[o].valid_from <= until(cv)
                    /\ versions[cv].valid_from <= until(o) }
    IN  IF overlapping = {} THEN {NoVersion} ELSE overlapping

Limit1(rows, pref) ==
    IF rows = {} THEN NoVersion
    ELSE IF pref \in rows THEN pref
    ELSE CHOOSE r \in rows : TRUE

-----------------------------------------------------------------------------
(* repository.py.  A connection's transaction status is "idle" (no          *)
(* transaction), "intrans" (a statement ran, nothing committed) or          *)
(* "aborted" (a statement failed; every further statement fails until       *)
(* rollback).  A call without a connection opens its own: NoConn.           *)

NoConn == "none"
MaxAttempts == 3     \* stop_after_attempt(3)
Attempts == 1 .. MaxAttempts

\* `if conn is None: conn = self.get_db_connection()`: the status the
\* statement meets.
Opened(st) == IF st = NoConn THEN "idle" ELSE st

\* The finally clause: a connection the call opened is closed.
Closed(st, st1) == IF st = NoConn THEN NoConn ELSE st1

\* What fetch_trip_context builds from the selected row.
TripContext(trip_id, cv) ==
    LET row == trips[trip_id]
        start == row.start_time
        end == row.end_time
        duration_minutes == IF end # NoTime THEN (end - start) * 60 ELSE 0
        trip_data == TripData(trip_id, row.distance_km, duration_minutes,
                              start % 24, row.is_carpool)
        raw_model == Upper(versions[cv].billing_model)
    IN  [trip_data |-> trip_data, model_enum |-> ToModelEnum(raw_model),
         rules_config |-> versions[cv].rules_config, version |-> cv]

\* Defect variant of RolledBack: the rollback leaves the transaction as it
\* was.
RolledBackInVain(st) == st

\* conn.rollback() in the except clause of the repository's reads.
RolledBack(st) == "idle"

\* Defect variant of TripContextOutcome: the except clause does not roll the
\* connection back.
TripContextOutcomeNoRollback(trip_id, st, qfail, pick) ==
    IF qfail \/ Opened(st) = "aborted"
    THEN [ok |-> FALSE, err |-> "DatabaseError", st |-> Closed(st, "aborted"),
          rollbacks |-> 0, closed |-> st = NoConn]
    ELSE IF pick = NoVersion
    THEN [ok |-> FALSE, err |-> "ValueError", st |-> Closed(st, "intrans"),
          rollbacks |-> 0, closed |-> st = NoConn]
    ELSE [ok |-> TRUE, val |-> TripContext(trip_id, pick),
          st |-> Closed(st, "intrans"), rollbacks |-> 0, closed |-> st = NoConn]

\* The body of fetch_trip_context once the row LIMIT 1 yields is known: pick.
\* qfail: the storage fails the statement.  [ok, val | err, st, rollbacks, closed]
TripContextOutcome(trip_id, st, qfail, pick) ==
    IF qfail \/ Opened(st) = "aborted"
    THEN [ok |-> FALSE, err |-> "DatabaseError",
          st |-> Closed(st, RolledBack("aborted")), rollbacks |-> 1,
          closed |-> st = NoConn]
    ELSE IF pick = NoVersion
    THEN [ok |-> FALSE, err |-> "ValueError",
          st |-> Closed(st, RolledBack("intrans")), rollbacks |-> 1,
          closed |-> st = NoConn]
    ELSE [ok |-> TRUE, val |-> TripContext(trip_id, pick),
          st |-> Closed(st, "intrans"), rollbacks |-> 0, closed |-> st = NoConn]

\* One attempt of fetch_trip_context on a connection in status st.
FetchTripContextAttempt(trip_id, client_id, st, qfail, pref) ==
    TripContextOutcome(trip_id, st, qfail,
                       Limit1(TripContextRows(trip_id, client_id), pref))

\* Defect variant of LastAttempt: a fourth attempt is made.
LastAttemptOfFour(a, n) == a.ok \/ n = MaxAttempts + 1

\* @retry(stop=stop_after_attempt(3), reraise=True) around a call: given the
\* outcome a of attempt n, whether the call ends with it.
LastAttempt(a, n) == a.ok \/ n = MaxAttempts

Retried(a, n, rb) == [a EXCEPT !.rollbacks = rb + a.rollbacks] @@ [attempts |-> n]

\* Attempt n and those after it.  fails: the attempts at which storage fails.
RECURSIVE FetchTripContextFrom(_, _, _, _, _, _, _)
RECURSIVE FetchTripContextRetry(_, _, _, _, _, _, _)
FetchTripContextRetry(a, trip_id, client_id, fails, pref, n, rb) ==
    IF LastAttempt(a, n) THEN Retried(a, n, rb)
    ELSE FetchTripContextFrom(trip_id, client_id, a.st, fails, pref, n + 1,
                              rb + a.rollbacks)

FetchTripContextFrom(trip_id, client_id, st, fails, pref, n, rb) ==
    FetchTripContextRetry(
        FetchTripContextAttempt(trip_id, client_id, st, n \in fails, pref),
        trip_id, client_id, fails, pref, n, rb)

fetch_trip_context(trip_id, client_id, st, fails, pref) ==
    FetchTripContextFrom(trip_id, client_id, st, fails, pref, 1, 0)

-----------------------------------------------------------------------------
(* service.py: BillingService.calculate_trip_cost *)

\* Defect variant of ServiceRollback: the except clause only re-raises.
ServiceRollbackSkipped(st) == st

\* `if conn: conn.rollback()` in the service's except clauses.
ServiceRollback(st) == IF st = NoConn THEN NoConn ELSE RolledBack(st)

\* The except clause of calculate_trip_cost: roll back, re-raise.
\* f: the resolver's outcome.
CostFailed(f, err, stage) ==
    [ok |-> FALSE, err |-> err, stage |-> stage, st |-> ServiceRollback(f.st),
     fetch |-> f, svc_rollbacks |-> IF f.st = NoConn THEN 0 ELSE 1]

\* Defect variant of WithOverride: the caller's override is ignored.
WithOverrideIgnored(trip_data, override_is_carpool) == trip_data

\* `if override_is_carpool is not None: trip_data.is_carpool = bool(...)`
WithOverride(trip_data, override_is_carpool) ==
    IF override_is_carpool # "None"
    THEN [trip_data EXCEPT !.is_carpool = (override_is_carpool = "True")]
    ELSE trip_data

\* The return of calculate_trip_cost, or its failure in the strategy.
CostCalculated(f, result) ==
    IF ~result.ok THEN CostFailed(f, result.err, "calculate")
    ELSE [ok |-> TRUE, val |-> result.val, stage |-> "done", st |-> f.st,
          fetch |-> f, svc_rollbacks |-> 0]

\* strategy = StrategyFactory.get_strategy(model_type); strategy.calculate_cost
CostNormalised(f, override_is_carpool, rules_config) ==
    IF ~rules_config.ok THEN CostFailed(f, rules_config.err, "normalise")
    ELSE CostCalculated(f, calculate_cost(f.val.model_enum,
                                          WithOverride(f.val.trip_data,
                                                       override_is_carpool),
                                          rules_config.val))

\* calculate_trip_cost after the resolver answered f.
CostResolved(f, override_is_carpool) ==
    IF ~f.ok THEN CostFailed(f, f.err, "resolve")
    ELSE CostNormalised(f, override_is_carpool,
                        create_config_safe(f.val.rules_config))

\* [ok, val | err, stage, st, fetch (the resolver's outcome), svc_rollbacks]
calculate_trip_cost(trip_id, client_id, st, override_is_carpool, fails, pref) ==
    CostResolved(fetch_trip_context(trip_id, client_id, st, fails, pref),
                 override_is_carpool)

-----------------------------------------------------------------------------
(* repository.py: fetch_client_trips; service.py: get_client_billing_data *)

\* WHERE client_id = %s
ClientTripIds(client_id) ==
    { t \in TripIds : trips[t] # NoRow /\ trips[t].client_id = client_id }

\* ORDER BY start_time DESC: every order of the client's trips with
\* non-increasing start times (equal start times come in any order).
ClientTripListings(client_id) ==
    LET ids == ClientTripIds(client_id)
        n == Cardinality(ids)
    IN  { s \in [1 .. n -> ids] :
            /\ \A i, j \in 1 .. n : i # j => s[i] # s[j]
            /\ \A i \in 1 .. n : i < n =>
                   trips[s[i]].start_time >= trips[s[i + 1]].start_time }

ListedTrip(trip_id) ==
    LET row == trips[trip_id]
    IN  [trip_id |-> trip_id, distance_km |-> row.distance_km,
         start_time |-> row.start_time, end_time |-> row.end_time,
         vendor_id |-> row.vendor_id, is_carpool |-> row.is_carpool]

\* Defect variant of FetchClientTripsAttempt: a failed read leaves the
\* caller's connection as it is.
FetchClientTripsAttemptNoRollback(st, qfail, listing) ==
    IF qfail \/ Opened(st) = "aborted"
    THEN [ok |-> FALSE, err |-> "DatabaseError",
          st |-> Closed(st, "aborted"), rollbacks |-> 0]
    ELSE [ok |-> TRUE, val |-> [i \in DOMAIN listing |-> ListedTrip(listing[i])],
          st |-> Closed(st, "intrans"), rollbacks |-> 0]

\* One attempt of fetch_client_trips.  listing: the order storage returns
\* the rows in, one of ClientTripListings.
FetchClientTripsAttempt(st, qfail, listing) ==
    IF qfail \/ Opened(st) = "aborted"
    THEN [ok |-> FALSE, err |-> "DatabaseError",
          st |-> Closed(st, RolledBack("aborted")), rollbacks |-> 1]
    ELSE [ok |-> TRUE, val |-> [i \in DOMAIN listing |-> ListedTrip(listing[i])],
          st |-> Closed(st, "intrans"), rollbacks |-> 0]

RECURSIVE FetchClientTripsFrom(_, _, _, _, _)
RECURSIVE FetchClientTripsRetry(_, _, _, _, _)
FetchClientTripsRetry(a, fails, listing, n, rb) ==
    IF LastAttempt(a, n) THEN Retried(a, n, rb)
    ELSE FetchClientTripsFrom(a.st, fails, listing, n + 1, rb + a.rollbacks)

FetchClientTripsFrom(st, fails, listing, n, rb) ==
    FetchClientTripsRetry(FetchClientTripsAttempt(st, n \in fails, listing),
                          fails, listing, n, rb)

fetch_client_trips(client_id, st, fails, listing) ==
    FetchClientTripsFrom(st, fails, listing, 1, 0)

SuccessRow(trip, calc) ==
    [trip_id |-> calc.trip_id, start_time |-> trip.start_time,
     end_time |-> trip.end_time, distance_km |-> trip.distance_km,
     billing_model |-> calc.billing_model, base_cost |-> calc.base_cost,
     tax_amount |-> calc.tax_amount, total_cost |-> calc.total_cost,
     employee_incentive |-> calc.employee_incentive,
     status |-> "SUCCESS", error |-> "None"]

ErrorRow(trip, e) ==
    [trip_id |-> trip.trip_id, start_time |-> trip.start_time,
     end_time |-> trip.end_time, distance_km |-> trip.distance_km,
     billing_model |-> "ERROR", base_cost |-> 0, tax_amount |-> 0,
     total_cost |-> 0, employee_incentive |-> 0,
     status |-> "ERROR", error |-> e]

\* Defect variant of BillingRow: a trip that fails to price is skipped.
BillingRowSkipFailed(acc, trip, calc) ==
    IF calc.ok
    THEN [acc EXCEPT !.rows = Append(@, SuccessRow(trip, calc.val)), !.st = calc.st]
    ELSE [acc EXCEPT !.st = "idle"]

\* One pass of `for trip in trips`: the try/except around calculate_trip_cost.
\* calc: what calculate_trip_cost answered for trip.  acc: [rows, st].
BillingRow(acc, trip, calc) ==
    IF calc.ok
    THEN [acc EXCEPT !.rows = Append(@, SuccessRow(trip, calc.val)), !.st = calc.st]
    ELSE [acc EXCEPT !.rows = Append(@, ErrorRow(trip, calc.err)),
                     !.st = ServiceRollback(calc.st)]

\* The loop from position i on.  bad: the positions at which every storage
\* attempt fails.
RECURSIVE BillingLoop(_, _, _, _, _, _)
BillingLoop(client_id, listed, bad, pref, i, acc) ==
    IF i > Len(listed) THEN acc
    ELSE BillingLoop(client_id, listed, bad, pref, i + 1,
             BillingRow(acc, listed[i],
                 calculate_trip_cost(listed[i].trip_id, client_id, acc.st, "None",
                                     IF i \in bad THEN Attempts ELSE {}, pref)))

\* `return results`.  t: the listing; r: the loop's end.
BillingData(t, r) == [ok |-> TRUE, val |-> r.rows, st |-> r.st, listed |-> t.val]

BillingListed(client_id, t, bad, pref) ==
    IF ~t.ok THEN [ok |-> FALSE, err |-> t.err, st |-> t.st, listed |-> <<>>,
                   val |-> <<>>]
    ELSE BillingData(t, BillingLoop(client_id, t.val, bad, pref, 1,
                                    [rows |-> <<>>, st |-> t.st]))

\* [ok, val (rows) | err, st, listed]
get_client_billing_data(client_id, st, fails, listing, bad, pref) ==
    BillingListed(client_id, fetch_client_trips(client_id, st, fails, listing),
                  bad, pref)

-----------------------------------------------------------------------------
(* repository.py: insert_trip; service.py: insert_new_trip *)

\* str(x), as in str(contract_data["rules_config"]) and str(row["start_time"]):
\* a string holding the repr of the value.
PyStr(v) == [t |-> "str", repr |-> v]

\* How storage fails an attempt of insert_trip: the INSERT raises; commit()
\* raises and the transaction is lost; commit() raises (the connection
\* breaks before the acknowledgement arrives) although the server committed.
InsertFaults == {"execute", "commit_lost", "commit_applied"}

\* The table after INSERT INTO trips ... and commit.
WithTrip(tbl, trip_id, row) == [tbl EXCEPT ![trip_id] = row]

\* The dict insert_trip returns, built from RETURNING.
InsertedRecord(trip_id, row) ==
    [trip_id |-> trip_id, client_id |-> row.client_id, vendor_id |-> row.vendor_id,
     distance_km |-> row.distance_km, start_time |-> PyStr(row.start_time),
     end_time |-> PyStr(row.end_time), is_carpool |-> row.is_carpool]

\* One attempt of insert_trip on a connection in status st.  The except
\* clause rolls back only a connection the call opened itself, so a failed
\* statement leaves the caller's connection aborted.
\* [ok, val | err, tbl, st, rollbacks]
InsertTripAttempt(tbl, st, trip_id, row, fault) ==
    IF fault = "execute" \/ Opened(st) = "aborted" \/ tbl[trip_id] # NoRow
    THEN [ok |-> FALSE, err |-> "DatabaseError", tbl |-> tbl,
          st |-> Closed(st, "aborted"), rollbacks |-> IF st = NoConn THEN 1 ELSE 0]
    ELSE IF fault \in {"commit_lost", "commit_applied"}
    THEN [ok |-> FALSE, err |-> "DatabaseError",
          tbl |-> IF fault = "commit_applied" THEN WithTrip(tbl, trip_id, row)
                  ELSE tbl,
          st |-> Closed(st, "aborted"), rollbacks |-> IF st = NoConn THEN 1 ELSE 0]
    ELSE [ok |-> TRUE, val |-> InsertedRecord(trip_id, row),
          tbl |-> WithTrip(tbl, trip_id, row), st |-> Closed(st, "idle"),
          rollbacks |-> 0]

\* Attempt n and those after it.  fails: the attempts storage fails, in the
\* way `how` says.
RECURSIVE InsertTripFrom(_, _, _, _, _, _, _, _)
RECURSIVE InsertTripRetry(_, _, _, _, _, _, _, _)
InsertTripRetry(a, trip_id, row, fails, how, n, rb, st0) ==
    IF LastAttempt(a, n) THEN Retried(a, n, rb)
    ELSE InsertTripFrom(a.tbl, IF st0 = NoConn THEN NoConn ELSE a.st, trip_id, row,
                        fails, how, n + 1, rb + a.rollbacks)

InsertTripFrom(tbl, st, trip_id, row, fails, how, n, rb) ==
    InsertTripRetry(
        InsertTripAttempt(tbl, st, trip_id, row, IF n \in fails THEN how ELSE "none"),
        trip_id, row, fails, how, n, rb, st)

insert_trip(tbl, st, trip_id, row, fails, how) ==
    InsertTripFrom(tbl, st, trip_id, row, fails, how, 1, 0)

\* BillingService.insert_new_trip passes its arguments on.
insert_new_trip(tbl, st, trip_id, row, fails, how) ==
    insert_trip(tbl, st, trip_id, row, fails, how)

\* service.py: generate_client_report.  The CSV as its sequence of records.
CsvHeader ==
    <<"trip_id", "start_time", "end_time", "distance_km", "billing_model",
      "base_cost", "tax_amount", "total_cost", "employee_incentive">>

CsvRow(row) ==
    IF row.status = "ERROR"
    THEN <<row.trip_id, row.start_time, row.end_time, row.distance_km, "ERROR",
           "", "", "", row.error>>
    ELSE <<row.trip_id, row.start_time, row.end_time, row.distance_km,
           row.billing_model, row.base_cost, row.tax_amount, row.total_cost,
           row.employee_incentive>>

\* billing_data: what get_client_billing_data answered.
generate_client_report(billing_data) ==
    IF ~billing_data.ok THEN billing_data
    ELSE [billing_data EXCEPT
            !.val = <<CsvHeader>> \o [i \in DOMAIN billing_data.val |->
                                         CsvRow(billing_data.val[i])]]

-----------------------------------------------------------------------------
(* repository.py: fetch_active_contract; service.py: the active-contract cache *)

\* The versions of client_id's contracts that are valid at `now`.
ActiveVersionRows(client_id, now) ==
    { cv \in VersionIds :
        \E c \in Contracts :
            /\ c.id = versions[cv].contract_id
            /\ c.client_id = client_id
            /\ versions[cv].valid_from <= now
            /\ \/ versions[cv].valid_until = NoTime
               \/ versions[cv].valid_until >= now }

\* ORDER BY cv.valid_from DESC LIMIT 1
NewestRows(rows) ==
    { cv \in rows : \A o \in rows : versions[o].valid_from <= versions[cv].valid_from }

ContractOf(cv) == CHOOSE c \in Contracts : c.id = versions[cv].contract_id

\* The body of fetch_active_contract once the selected row is known.
ActiveContractOutcome(st, qfail, pick) ==
    IF qfail \/ Opened(st) = "aborted"
    THEN [ok |-> FALSE, err |-> "DatabaseError",
          st |-> Closed(st, RolledBack("aborted")), rollbacks |-> 1]
    ELSE IF pick = NoVersion
    THEN [ok |-> FALSE, err |-> "ValueError",
          st |-> Closed(st, RolledBack("intrans")), rollbacks |-> 1]
    ELSE [ok |-> TRUE, st |-> Closed(st, "intrans"), rollbacks |-> 0,
          version |-> pick,
          val |-> [contract_id |-> ContractOf(pick).id,
                   vendor_id |-> ContractOf(pick).vendor_id,
                   billing_model |-> Upper(versions[pick].billing_model),
                   rules_config |-> versions[pick].rules_config]]

\* [ok, val | err, st, rollbacks]: a single attempt, no retry.
fetch_active_contract(client_id, st, now, qfail, pref) ==
    ActiveContractOutcome(st, qfail,
        Limit1(NewestRows(ActiveVersionRows(client_id, now)), pref))

\* lru_cache(maxsize=128); the model keeps the cache small.
maxsize == 2

CacheKeys(c) == { c[i].key : i \in DOMAIN c }
CacheIndex(c, k) == CHOOSE i \in DOMAIN c : c[i].key = k
Without(c, i) == [j \in 1 .. Len(c) - 1 |-> IF j < i THEN c[j] ELSE c[j + 1]]

\* A hit moves the entry to the most recently used end.
CacheTouch(c, k) == Append(Without(c, CacheIndex(c, k)), c[CacheIndex(c, k)])

\* Defect variant of CacheInsert: the result of a miss is not stored.
CacheInsertNothing(c, k, v) == c

\* Defect variant of CacheInsert: a full cache drops its most recently used
\* entry.
CacheInsertEvictNewest(c, k, v) ==
    Append(IF Len(c) >= maxsize THEN SubSeq(c, 1, Len(c) - 1) ELSE c,
           [key |-> k, val |-> v])

\* A miss result is stored at the most recently used end; a full cache first
\* drops its least recently used entry.
CacheInsert(c, k, v) ==
    Append(IF Len(c) >= maxsize THEN Tail(c) ELSE c, [key |-> k, val |-> v])

\* Defect variant of CacheStore: the result is inserted without looking for
\* the key again.
CacheStoreUnchecked(c, k, v) == CacheInsert(c, k, v)

\* lru_cache's store after the wrapped function returned, when other calls
\* may have run meanwhile: a key that is cached by now is left as it is.
CacheStore(c, k, v) == IF k \in CacheKeys(c) THEN c ELSE CacheInsert(c, k, v)

\* The tuple get_cached_active_contract returns.
ContractTuple(contract_data) ==
    <<contract_data.contract_id, contract_data.vendor_id,
      contract_data.billing_model, PyStr(contract_data.rules_config)>>

\* The body of get_cached_active_contract and lru_cache's store on return.
\* contract_data: what repo.fetch_active_contract(client_id) answered.
CacheMiss(client_id, contract_data) ==
    IF ~contract_data.ok
    THEN [ok |-> FALSE, err |-> contract_data.err, reads |-> 1, cache |-> cache,
          hit |-> FALSE]
    ELSE [ok |-> TRUE, reads |-> 1, hit |-> FALSE,
          val |-> <<contract_data.val.contract_id, contract_data.val.vendor_id,
                    contract_data.val.billing_model,
                    PyStr(contract_data.val.rules_config)>>,
          cache |-> CacheInsert(cache, client_id,
                       <<contract_data.val.contract_id, contract_data.val.vendor_id,
                         contract_data.val.billing_model,
                         PyStr(contract_data.val.rules_config)>>)]

\* get_cached_active_contract under lru_cache: [ok, val | err, reads, cache, hit]
get_cached_active_contract(client_id, now, qfail, pref) ==
    IF client_id \in CacheKeys(cache)
    THEN [ok |-> TRUE, val |-> cache[CacheIndex(cache, client_id)].val, reads |-> 0,
          cache |-> CacheTouch(cache, client_id), hit |-> TRUE]
    ELSE CacheMiss(client_id,
                   fetch_active_contract(client_id, NoConn, now, qfail, pref))

\* The dict get_active_contract builds from the cached tuple.
FromCache(c) ==
    IF ~c.ok THEN c @@ [st |-> NoConn]
    ELSE [ok |-> TRUE, st |-> NoConn, reads |-> c.reads, cache |-> c.cache,
          hit |-> c.hit,
          val |-> [contract_id |-> c.val[1], vendor_id |-> c.val[2],
                   billing_model |-> c.val[3], rules_config |-> c.val[4]]]

\* Defect variant of get_active_contract: the cache answers also when the
\* caller hands in a connection.
GetActiveContractAlwaysCached(client_id, st, now, qfail, pref) ==
    FromCache(get_cached_active_contract(client_id, now, qfail, pref))

\* Defect variant of get_active_contract: a successful read on the caller's
\* connection replaces the tenant's cache entry.
GetActiveContractRefreshing(client_id, st, now, qfail, pref) ==
    IF st # NoConn
    THEN LET r == fetch_active_contract(client_id, st, now, qfail, pref)
             rest == IF client_id \in CacheKeys(cache)
                     THEN Without(cache, CacheIndex(cache, client_id))
                     ELSE cache
         IN  r @@ [reads |-> 1, hit |-> FALSE,
                   cache |-> IF r.ok
                             THEN CacheInsert(rest, client_id, ContractTuple(r.val))
                             ELSE cache]
    ELSE FromCache(get_cached_active_contract(client_id, now, qfail, pref))

\* [ok, val | err, st, reads, cache, hit]
get_active_contract(client_id, st, now, qfail, pref) ==
    IF st # NoConn
    THEN fetch_active_contract(client_id, st, now, qfail, pref)
             @@ [reads |-> 1, cache |-> cache, hit |-> FALSE]
    ELSE FromCache(get_cached_active_contract(client_id, now, qfail, pref))

-----------------------------------------------------------------------------
(* The API: startup, the request dependency get_db_conn and the handlers.   *)

DB_MAX_CONN == 1  \* DB_POOL_MAXCONN=1: the pool holds a single connection
NumReq == 2       \* API requests

ConnIds == 1 .. DB_MAX_CONN
ReqIds == 1 .. NumReq
NoConnId == 0

Times == {3, 10, 20, 22}
Overrides == {"None", "True", "False"}

\* A row of the trips table.
TripRow(client_id, vendor_id, distance_km, start_time, end_time, is_carpool) ==
    [client_id |-> client_id, vendor_id |-> vendor_id, distance_km |-> distance_km,
     start_time |-> start_time, end_time |-> end_time, is_carpool |-> is_carpool]

\* The stored trips: t1 and t2 priced by k1's and k2's versions, t3 with a
\* vendor no contract of c1 links, t4 before every version of k1, t5 and t6
\* under k3's versions; t7 is not stored.  t1 starts at the last instant of
\* version b1, t6 at the first instant of version b5.
SeedTrips ==
    [t \in TripIds |->
        CASE t = "t1" -> TripRow("c1", "v1", 10, 20, 21, FALSE)
          [] t = "t2" -> TripRow("c2", "v1", 10, 22, NoTime, TRUE)
          [] t = "t3" -> TripRow("c1", "v2", 10, 22, 23, FALSE)
          [] t = "t4" -> TripRow("c1", "v1", 10, 3, 4, TRUE)
          [] t = "t5" -> TripRow("c3", "v2", 10, 10, 11, FALSE)
          [] t = "t6" -> TripRow("c3", "v2", 10, 16, 17, FALSE)
          [] OTHER -> NoRow]

NumCalls == 3     \* concurrent no-connection get_active_contract calls
CallIds == 1 .. NumCalls
NewCall == [pc |-> "new"]

NoInput == [none |-> TRUE]
NoResult == [none |-> TRUE]
NoCall == [op |-> "none"]

NumRuns == 3
RunIds == 1 .. NumRuns
NewRun == [pc |-> "new", input |-> NoInput, cost |-> 0, inc |-> 0, out |-> NoResult]

NewReq == [pc |-> "new", conn |-> NoConnId, outcome |-> "none", puts |-> 0]

Init ==
    /\ calcIn = NoInput
    /\ calcOut = NoResult
    /\ trips = SeedTrips
    /\ versions = SeedVersions
    /\ conns = [c \in ConnIds |-> [status |-> "idle", where |-> "pool"]]
    /\ started = FALSE
    /\ reqs = [r \in ReqIds |-> NewReq]
    /\ cache = <<>>
    /\ hist = [t \in Tenants |-> NoCall]
    /\ used = <<>>
    /\ calls = [k \in CallIds |-> NewCall]
    /\ runs = [k \in RunIds |-> NewRun]
    /\ last = NoCall

FreeConns == { c \in ConnIds : conns[c].where = "pool" }

\* connection_pool.putconn(conn): the pool is psycopg2's, outside the
\* repository; it may keep the connection as it is handed back or reset it.
PutConnStatuses(status) == {status, "idle"}

\* _ensure_users_table_and_seed: getconn, DDL and seed statements, commit,
\* and putconn in the finally clause.  how: the statements all succeed and
\* commit ("committed"), one of them fails ("statement_failed"), or an
\* exception outside SQL (hash_password) leaves the transaction open.
StartupStatus(how) ==
    CASE how = "committed" -> "idle"
      [] how = "statement_failed" -> "aborted"
      [] how = "left_open" -> "intrans"

Startup ==
    /\ ~started
    /\ \E c \in FreeConns, how \in {"committed", "statement_failed", "left_open"} :
         \E kept \in PutConnStatuses(StartupStatus(how)) :
            /\ conns' = [conns EXCEPT ![c] = [status |-> kept, where |-> "pool"]]
            /\ last' = [op |-> "putconn", by |-> "startup", conn |-> c,
                        status_at_put |-> StartupStatus(how), rolled_back |-> FALSE]
    /\ started' = TRUE
    /\ UNCHANGED <<runs, calcIn, calcOut, trips, versions, reqs, cache, hist,
                 used, calls>>

\* get_db_conn up to its yield: conn = connection_pool.getconn().  An
\* exhausted pool raises and the request ends without a connection.
Borrow(r) ==
    /\ started
    /\ reqs[r].pc = "new"
    /\ IF FreeConns = {}
       THEN /\ reqs' = [reqs EXCEPT ![r] = [@ EXCEPT !.pc = "done",
                                                   !.outcome = "unexpected"]]
            /\ last' = [op |-> "getconn", req |-> r, conn |-> NoConnId,
                        status |-> "none"]
            /\ UNCHANGED conns
       ELSE \E c \in FreeConns :
            /\ reqs' = [reqs EXCEPT ![r] = [@ EXCEPT !.pc = "borrowed", !.conn = c]]
            /\ conns' = [conns EXCEPT ![c].where = "out"]
            /\ last' = [op |-> "getconn", req |-> r, conn |-> c,
                        status |-> conns[c].status]
    /\ UNCHANGED <<runs, calcIn, calcOut, trips, versions, started, cache, hist,
                 used, calls>>

\* Defect variant of ReleaseConn: putconn is skipped for a connection that is
\* in a transaction when the handler ends.
ReleaseConnOnlyClean(status) ==
    [status |-> "idle", puts |-> IF status = "idle" THEN 1 ELSE 0, rolled_back |-> TRUE]

\* The finally clause of get_db_conn: `if conn:` rollback (errors swallowed),
\* then putconn.  [status, puts, rolled_back]
ReleaseConn(status) == [status |-> RolledBack(status), puts |-> 1, rolled_back |-> TRUE]

\* get_db_conn after the yield, on every way out of the handler.
Release(r) ==
    /\ reqs[r].pc = "handled"
    /\ LET c == reqs[r].conn
           rel == ReleaseConn(conns[c].status)
       IN  \E kept \in PutConnStatuses(rel.status) :
            /\ conns' = [conns EXCEPT ![c] =
                            [status |-> kept,
                             where |-> IF rel.puts > 0 THEN "pool" ELSE "out"]]
            /\ reqs' = [reqs EXCEPT ![r] = [@ EXCEPT !.pc = "done",
                                                   !.puts = @ + rel.puts]]
            /\ last' = [op |-> "putconn", by |-> "get_db_conn", conn |-> c,
                        status_at_put |-> rel.status, rolled_back |-> rel.rolled_back]
    /\ UNCHANGED <<runs, calcIn, calcOut, trips, versions, started, cache, hist,
                 used, calls>>

\* How the API answers: a value, a business error (ValueError, HTTPException:
\* 4xx) or an unexpected exception (5xx).
Outcome(res) ==
    IF res.ok THEN "ok"
    ELSE IF res.err \in {"ValueError", "HTTPException"} THEN "business"
    ELSE "unexpected"

\* The body text of an error response: the handler's fixed message, or
\* str(e) of the exception that was caught.
GenericDetail == [text |-> "An unexpected error occurred"]
ExceptionText(err) == [text |-> "str(e)", of |-> err]

\* exceptions.py: global_exception_handler, for what the routes let through.
global_exception_handler(err) ==
    IF err = "ValueError"
    THEN [status_code |-> 400, detail |-> ExceptionText(err)]
    ELSE [status_code |-> 500, detail |-> GenericDetail]

\* A route that does not catch: its result, or the global handler's answer.
RouteResponse(res) ==
    IF res.ok THEN [status_code |-> 200, detail |-> res.val]
    ELSE global_exception_handler(res.err)

\* secure_get_billing_stats: except Exception as e:
\*     raise HTTPException(status_code=500, detail=str(e))
StatsResponse(res) ==
    IF res.ok THEN [status_code |-> 200, detail |-> res.val]
    ELSE [status_code |-> 500, detail |-> ExceptionText(res.err)]

Handled(r, res) ==
    /\ reqs' = [reqs EXCEPT ![r] = [@ EXCEPT !.pc = "handled", !.outcome = Outcome(res)]]
    /\ conns' = [conns EXCEPT ![reqs[r].conn].status = res.st]

\* Storage failures injected into a retried call: none, the first attempt
\* only, or every attempt.
FailSets == {{}, {1}, Attempts}

\* GET /billing/{trip_id}: get_billing
GetBilling(r) ==
    /\ reqs[r].pc = "borrowed"
    /\ \E trip_id \in TripIds, client_id \in Tenants, is_carpool \in Overrides,
          fails \in FailSets, pref \in Prefs :
       \E st \in {conns[reqs[r].conn].status} :
       \E res \in {calculate_trip_cost(trip_id, client_id, st, is_carpool, fails, pref)} :
             /\ Handled(r, res)
             /\ last' = [op |-> "calculate_trip_cost", trip_id |-> trip_id,
                         client_id |-> client_id, override |-> is_carpool,
                         fails |-> fails, st_before |-> st, res |-> res,
                         response |-> RouteResponse(res)]
    /\ UNCHANGED <<runs, calcIn, calcOut, trips, versions, started, cache, hist,
                 used, calls>>

\* GET /secure/billing/stats: secure_get_billing_stats
GetBillingStats(r) ==
    /\ reqs[r].pc = "borrowed"
    /\ \E client_id \in Tenants, fails \in FailSets, pref \in Prefs :
       \E listing \in ClientTripListings(client_id) :
       \E bad \in SUBSET DOMAIN listing :
       \E st \in {conns[reqs[r].conn].status} :
       \E res \in {get_client_billing_data(client_id, st, fails, listing, bad, pref)} :
             /\ Handled(r, res)
             /\ last' = [op |-> "get_client_billing_data", client_id |-> client_id,
                         fails |-> fails, listing |-> listing, st_before |-> st,
                         bad |-> bad, res |-> res,
                         response |-> StatsResponse(res)]
    /\ UNCHANGED <<runs, calcIn, calcOut, trips, versions, started, cache, hist,
                 used, calls>>

\* GET /billing/export-csv and /secure/billing/export-csv:
\* generate_client_report on the request's connection
ExportBillingCsv(r) ==
    /\ reqs[r].pc = "borrowed"
    /\ \E client_id \in Tenants, fails \in FailSets, pref \in Prefs :
       \E listing \in ClientTripListings(client_id) :
       \E bad \in SUBSET DOMAIN listing :
       \E st \in {conns[reqs[r].conn].status} :
       \E data \in {get_client_billing_data(client_id, st, fails, listing, bad, pref)} :
       \E res \in {generate_client_report(data)} :
             /\ Handled(r, res)
             /\ last' = [op |-> "generate_client_report", client_id |-> client_id,
                         fails |-> fails, listing |-> listing, st_before |-> st,
                         bad |-> bad, res |-> res,
                         response |-> RouteResponse(res)]
    /\ UNCHANGED <<runs, calcIn, calcOut, trips, versions, started, cache, hist,
                 used, calls>>

\* The users table rows the tokens of the requests resolve to.
NoId == "none"
Users ==
    { [role |-> "SUPER_ADMIN", client_id |-> NoId, vendor_id |-> NoId],
      [role |-> "SUPER_ADMIN", client_id |-> "c2", vendor_id |-> NoId],
      [role |-> "CLIENT_ADMIN", client_id |-> "c1", vendor_id |-> NoId],
      [role |-> "CLIENT_ADMIN", client_id |-> NoId, vendor_id |-> NoId],
      [role |-> "VENDOR_ADMIN", client_id |-> "c1", vendor_id |-> "v1"],
      [role |-> "VENDOR_ADMIN", client_id |-> "c1", vendor_id |-> NoId],
      [role |-> "VIEWER", client_id |-> "c1", vendor_id |-> NoId] }

\* vendor_id values of a TripInput; uuid.UUID() accepts the first two.
InputVendors == {"v1", "v2", "not-a-uuid"}
IsUuid(v) == v # "not-a-uuid"

\* uuid.uuid4(): an id no stored trip has.
FreshTripIds == { t \in TripIds : trips[t] = NoRow }

\* The row a TripInput becomes.
InputRow(client_id, vendor_id) == TripRow(client_id, vendor_id, 10, 22, 23, FALSE)

HttpError(code, st) ==
    [ok |-> FALSE, err |-> "HTTPException", status_code |-> code, st |-> st,
     tbl |-> trips, attempts |-> 0]

\* The response of the two create routes to what they did.
CreateResponse(res) ==
    IF res.ok THEN [status_code |-> 200, detail |-> res.val]
    ELSE IF res.err = "HTTPException"
    THEN [status_code |-> res.status_code, detail |-> [text |-> "fixed"]]
    ELSE global_exception_handler(res.err)

\* Defect variant of SecureCreateDenied: require_role lets every role pass.
SecureCreateDeniedAnyRole(user, vendor_id) ==
    IF user.client_id = NoId /\ user.role # "SUPER_ADMIN" THEN 400
    ELSE IF user.role = "VENDOR_ADMIN" /\ user.vendor_id = NoId THEN 400
    ELSE IF user.role = "VENDOR_ADMIN" /\ vendor_id # user.vendor_id THEN 403
    ELSE IF ~IsUuid(vendor_id) THEN 400
    ELSE IF user.role = "SUPER_ADMIN" /\ user.client_id = NoId THEN 400
    ELSE 0

\* The checks of secure_create_trip before the insert, require_role first:
\* the status code they end the request with, 0 when they pass.
SecureCreateDenied(user, vendor_id) ==
    IF user.role \notin {"SUPER_ADMIN", "CLIENT_ADMIN", "VENDOR_ADMIN"} THEN 403
    ELSE IF user.client_id = NoId /\ user.role # "SUPER_ADMIN" THEN 400
    ELSE IF user.role = "VENDOR_ADMIN" /\ user.vendor_id = NoId THEN 400
    ELSE IF user.role = "VENDOR_ADMIN" /\ vendor_id # user.vendor_id THEN 403
    ELSE IF ~IsUuid(vendor_id) THEN 400
    ELSE IF user.role = "SUPER_ADMIN" /\ user.client_id = NoId THEN 400
    ELSE 0

\* Storage failures of an insert: which attempts fail and how.
InsertFailures ==
    {<<{}, "execute">>} \cup ((FailSets \ {{}}) \X InsertFaults)

\* POST /trips: create_trip
CreateTrip(r) ==
    /\ reqs[r].pc = "borrowed"
    /\ \E client_id \in Tenants, vendor_id \in InputVendors,
          trip_id \in FreshTripIds, f \in InsertFailures :
       \E st \in {conns[reqs[r].conn].status} :
       \E res \in {IF ~IsUuid(vendor_id) THEN HttpError(400, st)
                    ELSE insert_new_trip(trips, st, trip_id,
                                         InputRow(client_id, vendor_id),
                                         f[1], f[2])} :
             /\ Handled(r, res)
             /\ trips' = res.tbl
             /\ last' = [op |-> "insert_new_trip", route |-> "/trips",
                         trip_id |-> trip_id, client_id |-> client_id,
                         vendor_id |-> vendor_id, user |-> NoId, fails |-> f[1],
                         how |-> f[2], st_before |-> st, res |-> res,
                         response |-> CreateResponse(res)]
    /\ UNCHANGED <<runs, calcIn, calcOut, versions, started, cache, hist,
                   used, calls>>

\* get_current_user reads the users table on the request's connection.
AuthRead(st) == IF st = "aborted" THEN "aborted" ELSE "intrans"

\* POST /secure/trips: secure_create_trip
SecureCreateTrip(r) ==
    /\ reqs[r].pc = "borrowed"
    /\ \E user \in Users, vendor_id \in InputVendors,
          trip_id \in FreshTripIds, f \in InsertFailures :
       \E st \in {conns[reqs[r].conn].status} :
       \E res \in {IF st = "aborted"
                    THEN [ok |-> FALSE, err |-> "DatabaseError", st |-> st,
                          tbl |-> trips, attempts |-> 0]
                    ELSE IF SecureCreateDenied(user, vendor_id) # 0
                    THEN HttpError(SecureCreateDenied(user, vendor_id), AuthRead(st))
                    ELSE insert_new_trip(trips, AuthRead(st), trip_id,
                                         InputRow(user.client_id, vendor_id),
                                         f[1], f[2])} :
             /\ Handled(r, res)
             /\ trips' = res.tbl
             /\ last' = [op |-> "insert_new_trip", route |-> "/secure/trips",
                         trip_id |-> trip_id, client_id |-> user.client_id,
                         vendor_id |-> vendor_id, user |-> user, fails |-> f[1],
                         how |-> f[2], st_before |-> st, res |-> res,
                         response |-> CreateResponse(res)]
    /\ UNCHANGED <<runs, calcIn, calcOut, versions, started, cache, hist,
                   used, calls>>

Next ==
    \/ Startup
    \/ \E r \in ReqIds : Borrow(r)
    \/ \E r \in ReqIds : GetBilling(r)
    \/ \E r \in ReqIds : GetBillingStats(r)
    \/ \E r \in ReqIds : ExportBillingCsv(r)
    \/ \E r \in ReqIds : CreateTrip(r)
    \/ \E r \in ReqIds : SecureCreateTrip(r)
    \/ \E r \in ReqIds : Release(r)

Spec == Init /\ [][Next]_vars

-----------------------------------------------------------------------------
(* The strategies on their own: calculate_cost applied to trips and rule    *)
(* configurations drawn from bounded sets.                                  *)

Distances == {0, 1, 10}
Hours == 0 .. 23

\* Rates and bonuses below one cent, as a JSONB column may hold them.
RulesFine ==
    JObj([night_shift_surcharge |-> JNum(4), per_km_rate_after_limit |-> JNum(84),
          base_fare |-> JNum(4), cost_per_km |-> JNum(84),
          incentive_rules |-> JObj([carpool_bonus |-> JNum(4)])])

RulesHybridBonus ==
    JObj([night_shift_surcharge |-> JNum(20000),
          per_km_rate_after_limit |-> JNum(5000),
          incentive_rules |-> JObj([carpool_bonus |-> JNum(50000)])])

RulesNoBonus ==
    JObj([base_fare |-> JNum(30000), cost_per_km |-> JNum(12000),
          incentive_rules |-> JObj([carpool_bonus |-> JNum(0)])])

RulesEmpty == JObj(<<>>)

CalcRules ==
    {RulesHybrid, RulesHybridBonus, RulesPerTrip, RulesNoBonus, RulesPackage,
     RulesFine, RulesEmpty, RulesBadRate}

CalcInputs ==
    [model : BillingModelType,
     trip : { TripData("t1", d, 60, h, c) : d \in Distances, h \in Hours, c \in BOOLEAN },
     rules : CalcRules]

InitCalc ==
    /\ calcIn \in CalcInputs
    /\ calcOut = NoResult
    /\ trips = SeedTrips
    /\ versions = SeedVersions
    /\ conns = [c \in ConnIds |-> [status |-> "idle", where |-> "pool"]]
    /\ started = FALSE
    /\ reqs = [r \in ReqIds |-> NewReq]
    /\ cache = <<>>
    /\ hist = [t \in Tenants |-> NoCall]
    /\ used = <<>>
    /\ calls = [k \in CallIds |-> NewCall]
    /\ runs = [k \in RunIds |-> NewRun]
    /\ last = NoCall

\* rules_config = create_config_safe(rules_dict);
\* result = StrategyFactory.get_strategy(model_type).calculate_cost(trip, rules_config)
CalculateCost ==
    /\ calcOut = NoResult
    /\ calcOut' = calculate_cost(calcIn.model, calcIn.trip,
                                 create_config_safe(calcIn.rules).val)
    /\ UNCHANGED <<runs, calcIn, trips, versions, conns, started, reqs, cache, hist,
                 used, calls, last>>

NextCalc == CalculateCost

SpecCalc == InitCalc /\ [][NextCalc]_vars

-----------------------------------------------------------------------------
(* The active-contract cache: get_active_contract without a connection,     *)
(* and the contract maintenance script that changes storage meanwhile.      *)

MaxUpdates == 1   \* runs of the contract maintenance script

\* jsonb_set(COALESCE(rules_config, '{}'), '{incentive_rules}', bonus, true)
SetIncentive(rules_config, bonus) ==
    LET base == IF rules_config.t = "obj" THEN rules_config.o ELSE <<>>
        keys == DOMAIN base \cup {"incentive_rules"}
    IN  JObj([k \in keys |-> IF k = "incentive_rules"
                             THEN JObj([carpool_bonus |-> JNum(bonus)])
                             ELSE base[k]])

\* The --version-id arguments the script is run with: the open-ended
\* versions of c1's and c2's contracts.
UpdatedVersions == {"b2", "b3"}

\* step1_update_contract_incentive.py --version-id v --bonus b
UpdateContractIncentive ==
    /\ Cardinality({ v \in VersionIds : versions[v] # SeedVersions[v] }) < MaxUpdates
    /\ \E v \in UpdatedVersions, bonus \in {25000} :
         /\ versions' = [versions EXCEPT ![v].rules_config = SetIncentive(@, bonus)]
         /\ last' = [op |-> "update_contract_incentive", version |-> v]
    /\ UNCHANGED <<runs, calcIn, calcOut, trips, conns, started, reqs, cache, hist,
                 used, calls>>

\* get_active_contract(client_id) without a connection (CLI, batch): cached.
\* hist keeps, per tenant, what the latest such call returned, until the
\* tenant's cache entry is evicted; last.after_live tells that the
\* operation before this one was a successful call with a connection for the
\* same tenant.
GetActiveContractCached ==
    /\ \E client_id \in Tenants, now \in Times, qfail \in BOOLEAN, pref \in Prefs :
       \E res \in {get_active_contract(client_id, NoConn, now, qfail, pref)} :
         LET call == [op |-> "call", ok |-> res.ok, reads |-> res.reads,
                      hit |-> res.hit,
                      val |-> IF res.ok THEN res.val ELSE NoResult]
             evicted(t) == hist[t].op = "call" /\ hist[t].ok /\ t \notin CacheKeys(res.cache)
         IN  /\ cache' = res.cache
             /\ hist' = [t \in Tenants |->
                            IF t = client_id THEN call
                            ELSE IF evicted(t) THEN NoCall
                            ELSE hist[t]]
             /\ used' = IF res.ok THEN Append(SelectSeq(used, LAMBDA t : t # client_id),
                                              client_id)
                        ELSE used
             /\ last' = [op |-> "get_active_contract", client_id |-> client_id,
                         now |-> now, prev |-> hist[client_id],
                         after_live |-> /\ last.op = "get_contracts"
                                        /\ last.client_id = client_id
                                        /\ last.res.ok,
                         res |-> [res EXCEPT !.cache = <<>>]]
    /\ UNCHANGED <<runs, calcIn, calcOut, trips, versions, conns, started, reqs, calls>>

\* GET /contracts and /secure/contracts as one request: get_db_conn borrows a
\* connection, the handler calls get_active_contract(client_id, conn), and
\* get_db_conn's finally clause rolls back and puts the connection back.
GetContracts ==
    /\ \E c \in FreeConns, client_id \in Tenants, now \in Times, qfail \in BOOLEAN,
          pref \in Prefs :
       \E res \in {get_active_contract(client_id, conns[c].status, now, qfail, pref)} :
       \E kept \in PutConnStatuses(ReleaseConn(res.st).status) :
         /\ conns' = [conns EXCEPT ![c].status = kept]
         /\ last' = [op |-> "get_contracts", client_id |-> client_id, now |-> now,
                     qfail |-> qfail, st_before |-> conns[c].status,
                     res |-> [res EXCEPT !.cache = <<>>]]
         /\ cache' = res.cache
    /\ UNCHANGED <<runs, calcIn, calcOut, trips, versions, started, reqs, hist,
                 used, calls>>

NextCache == GetActiveContractCached \/ UpdateContractIncentive \/ GetContracts

SpecCache == Init /\ [][NextCache]_vars

-----------------------------------------------------------------------------
(* Concurrent no-connection get_active_contract calls (threads of one      *)
(* process).  lru_cache looks the key up, calls get_cached_active_contract *)
(* outside its lock on a miss, and stores the result when it returns; each *)
(* of the three is one step.                                               *)

\* get_active_contract(client_id): the lookup in lru_cache.
CallLookup(k) ==
    /\ calls[k].pc = "new"
    /\ \E client_id \in Tenants :
         IF client_id \in CacheKeys(cache)
         THEN /\ calls' = [calls EXCEPT ![k] =
                             [pc |-> "done", client_id |-> client_id, ok |-> TRUE,
                              hit |-> TRUE,
                              val |-> cache[CacheIndex(cache, client_id)].val]]
              /\ cache' = CacheTouch(cache, client_id)
         ELSE /\ calls' = [calls EXCEPT ![k] =
                             [pc |-> "miss", client_id |-> client_id]]
              /\ UNCHANGED cache
    /\ UNCHANGED <<runs, calcIn, calcOut, trips, versions, conns, started, reqs, hist, used,
                   last>>

\* The body of get_cached_active_contract: repo.fetch_active_contract(client_id)
\* on a connection of its own.
CallFetch(k) ==
    /\ calls[k].pc = "miss"
    /\ \E now \in Times, qfail \in BOOLEAN, pref \in Prefs :
       \E contract_data \in {fetch_active_contract(calls[k].client_id, NoConn, now,
                                                  qfail, pref)} :
         calls' = [calls EXCEPT ![k] =
                      IF contract_data.ok
                      THEN [pc |-> "fetched", client_id |-> calls[k].client_id,
                            val |-> ContractTuple(contract_data.val)]
                      ELSE [pc |-> "done", client_id |-> calls[k].client_id,
                            ok |-> FALSE, hit |-> FALSE, val |-> <<>>]]
    /\ UNCHANGED <<runs, calcIn, calcOut, trips, versions, conns, started, reqs, cache, hist,
                   used, last>>

\* lru_cache stores the returned tuple and hands it to get_active_contract.
CallStore(k) ==
    /\ calls[k].pc = "fetched"
    /\ cache' = CacheStore(cache, calls[k].client_id, calls[k].val)
    /\ calls' = [calls EXCEPT ![k] =
                    [pc |-> "done", client_id |-> calls[k].client_id, ok |-> TRUE,
                     hit |-> FALSE, val |-> calls[k].val]]
    /\ UNCHANGED <<runs, calcIn, calcOut, trips, versions, conns, started, reqs, hist, used,
                   last>>

NextConc ==
    \/ \E k \in CallIds : CallLookup(k)
    \/ \E k \in CallIds : CallFetch(k)
    \/ \E k \in CallIds : CallStore(k)

SpecConc == Init /\ [][NextConc]_vars

-----------------------------------------------------------------------------
(* Concurrent calculations through the shared strategy instances of         *)
(* StrategyFactory._strategies.  HybridStrategy.calculate_cost is taken     *)
(* statement by statement; its accumulator `cost` is a local of the call.   *)

RunInputs ==
    { [model |-> "HYBRID", trip |-> TripData("t1", 10, 60, 22, FALSE),
       rules |-> create_config_safe(RulesHybridBonus).val],
      [model |-> "HYBRID", trip |-> TripData("t2", 1, 60, 12, TRUE),
       rules |-> create_config_safe(RulesHybridBonus).val],
      [model |-> "PER_TRIP", trip |-> TripData("t3", 10, 60, 22, TRUE),
       rules |-> create_config_safe(RulesPerTrip).val] }

\* Defect variant of CostFrame: `cost` is kept on the strategy instance,
\* which all calls share.
CostFrameOfInstance(k) == 1

\* The frame that holds the local `cost` of call k: the call's own.
CostFrame(k) == k

\* cost = 0.0 on entry to HybridStrategy.calculate_cost; the other two
\* strategies compute their result in one expression.
RunBegin(k) ==
    /\ runs[k].pc = "new"
    /\ \E inp \in RunInputs :
           runs' = [runs EXCEPT
                      ![k].pc = IF inp.model = "HYBRID" THEN "night" ELSE "return",
                      ![k].input = inp,
                      ![CostFrame(k)].cost = 0]
    /\ UNCHANGED <<calcIn, calcOut, trips, versions, conns, started, reqs, cache,
                   hist, used, calls, last>>

\* if is_night_shift: cost += rules.night_shift_surcharge or 0.0
RunNight(k) ==
    /\ runs[k].pc = "night"
    /\ LET inp == runs[k].input
           is_night_shift == inp.trip.start_hour >= 20 \/ inp.trip.start_hour < 6
           surcharge == IF is_night_shift
                        THEN OrZero(inp.rules["night_shift_surcharge"]).n ELSE 0
       IN  runs' = [runs EXCEPT
                      ![k].pc = "distance",
                      ![CostFrame(k)].cost = @ + surcharge]
    /\ UNCHANGED <<calcIn, calcOut, trips, versions, conns, started, reqs, cache,
                   hist, used, calls, last>>

\* cost += trip.distance_km * (rules.per_km_rate_after_limit or 0.0)
RunDistance(k) ==
    /\ runs[k].pc = "distance"
    /\ LET inp == runs[k].input
           km_rate == OrZero(inp.rules["per_km_rate_after_limit"]).n
       IN  runs' = [runs EXCEPT
                      ![k].pc = "incentive",
                      ![CostFrame(k)].cost = @ + inp.trip.distance_km * km_rate]
    /\ UNCHANGED <<calcIn, calcOut, trips, versions, conns, started, reqs, cache,
                   hist, used, calls, last>>

\* the carpool block: employee_incentive += carpool_bonus
RunIncentive(k) ==
    /\ runs[k].pc = "incentive"
    /\ runs' = [runs EXCEPT
                  ![k].pc = "return",
                  ![k].inc = CarpoolIncentive(runs[k].input.trip,
                                              runs[k].input.rules).val]
    /\ UNCHANGED <<calcIn, calcOut, trips, versions, conns, started, reqs, cache,
                   hist, used, calls, last>>

\* tax = self.apply_tax(cost); total = round(cost + tax + incentive, 2);
\* return CalculationResult(...)
RunReturn(k) ==
    /\ runs[k].pc = "return"
    /\ LET inp == runs[k].input
           cost == runs[CostFrame(k)].cost
           tax == apply_tax(cost)
           total == Round2(cost + tax * MilliPerCent + runs[k].inc)
       IN  runs' = [runs EXCEPT
                      ![k].pc = "done",
                      ![k].out =
                          IF inp.model = "HYBRID"
                          THEN CalculationResult(inp.trip, "HYBRID", Round2(cost),
                                                 tax, total, runs[k].inc)
                          ELSE calculate_cost(inp.model, inp.trip, inp.rules)]
    /\ UNCHANGED <<calcIn, calcOut, trips, versions, conns, started, reqs, cache,
                   hist, used, calls, last>>

NextShared ==
    \E k \in RunIds :
        RunBegin(k) \/ RunNight(k) \/ RunDistance(k) \/ RunIncentive(k) \/ RunReturn(k)

SpecShared == Init /\ [][NextShared]_vars

-----------------------------------------------------------------------------
(* Properties of the strategies (SpecCalc). *)

\* The strategy call under test has returned a result.
Calculated == calcOut # NoResult /\ calcOut.ok

\* round(x, 2) of a sum of amounts that are already in cents.
RoundedSum(base_cost, tax_amount, employee_incentive) ==
    Round2((base_cost + tax_amount + employee_incentive) * MilliPerCent)

\* C1: in every strategy result, total_cost equals
\* round(base_cost + tax_amount + employee_incentive, 2) over the fields
\* reported in that same result, and for FIXED_PACKAGE total_cost equals
\* employee_incentive.
C1_TotalIsSumOfReportedFields ==
    Calculated =>
        /\ calcOut.val.total_cost =
               RoundedSum(calcOut.val.base_cost, calcOut.val.tax_amount,
                          calcOut.val.employee_incentive)
        /\ calcOut.val.billing_model = "FIXED_PACKAGE" =>
               calcOut.val.total_cost = calcOut.val.employee_incentive

\* C1: HYBRID, 1 km at noon, rate 0.084 per km, carpool with bonus 0.004:
\* reported 0.08 + 0.02 + 0.00, total 0.11.
C1_SumDiffers ==
    /\ calcIn # NoInput
    /\ calcIn.model = "HYBRID"
    /\ calcIn.rules = RulesFine
    /\ calcIn.trip = TripData("t1", 1, 60, 12, TRUE)
    /\ Calculated
    /\ calcOut.val.base_cost = 8
    /\ calcOut.val.tax_amount = 2
    /\ calcOut.val.employee_incentive = 0
    /\ calcOut.val.total_cost = 11

\* C2: the tax_amount of a HYBRID or PER_TRIP result equals
\* round(base_cost * 0.18, 2) of the base_cost reported in the same result.
C2_TaxOfReportedBase ==
    (Calculated /\ calcOut.val.billing_model \in {"HYBRID", "PER_TRIP"}) =>
        calcOut.val.tax_amount = apply_tax(calcOut.val.base_cost * MilliPerCent)

\* C2: HYBRID, 1 km at noon, rate 0.084 per km: cost 0.084, reported base
\* 0.08 and tax 0.02 = round(0.084 * 0.18, 2), while round(0.08 * 0.18, 2) = 0.01.
C2_TaxDiffers ==
    /\ calcIn # NoInput
    /\ calcIn.model = "HYBRID"
    /\ calcIn.rules = RulesFine
    /\ calcIn.trip = TripData("t1", 1, 60, 12, FALSE)
    /\ Calculated
    /\ calcOut.val.base_cost = 8
    /\ calcOut.val.tax_amount = 2
    /\ apply_tax(calcOut.val.base_cost * MilliPerCent) = 1

-----------------------------------------------------------------------------
(* Properties of the resolver and the service (Spec). *)

CalledCalculate == last.op = "calculate_trip_cost"
CalledBillingData == last.op = "get_client_billing_data"

\* Some contract links the trip's client and vendor.
LinkingContracts(trip_id) ==
    { c \in Contracts : /\ c.client_id = trips[trip_id].client_id
                        /\ c.vendor_id = trips[trip_id].vendor_id }

\* Some version of a linking contract is valid at the trip's start time.
CoveringVersions(trip_id) ==
    { cv \in VersionIds :
        /\ \E c \in LinkingContracts(trip_id) : versions[cv].contract_id = c.id
        /\ versions[cv].valid_from <= trips[trip_id].start_time
        /\ \/ versions[cv].valid_until = NoTime
           \/ trips[trip_id].start_time <= versions[cv].valid_until }

Unresolvable(trip_id) ==
    \/ trips[trip_id] = NoRow
    \/ LinkingContracts(trip_id) = {}
    \/ CoveringVersions(trip_id) = {}

\* C3: when the trip is not stored, no contract links its client and vendor,
\* or no version covers its start time, fetch_trip_context ends in an error
\* and so does calculate_trip_cost: neither yields a TripData or a cost.
C3_UnresolvableTripFails ==
    (CalledCalculate /\ Unresolvable(last.trip_id)) =>
        /\ ~last.res.fetch.ok
        /\ ~last.res.ok
        /\ last.res.stage = "resolve"

\* C3: t4 asked for by its own tenant starts before every version of k1.
C3_NoCoveringVersion ==
    /\ CalledCalculate
    /\ last.trip_id = "t4"
    /\ last.client_id = "c1"
    /\ last.fails = {}
    /\ LinkingContracts("t4") # {}
    /\ CoveringVersions("t4") = {}
    /\ ~last.res.ok
    /\ last.res.err = "ValueError"

\* C4: calculate_trip_cost yields a cost only for a trip stored under the
\* requesting tenant; for a trip of another tenant it fails in the resolver,
\* as not found unless storage itself failed; the rows of
\* get_client_billing_data are all trips stored under the requesting tenant.
C4_TenantIsolation ==
    /\ (CalledCalculate /\ last.res.ok) =>
           /\ trips[last.trip_id] # NoRow
           /\ trips[last.trip_id].client_id = last.client_id
    /\ (CalledCalculate /\ trips[last.trip_id] # NoRow
            /\ trips[last.trip_id].client_id # last.client_id) =>
           /\ ~last.res.ok
           /\ last.res.stage = "resolve"
           /\ last.fails # Attempts => last.res.err = "ValueError"
    /\ (CalledBillingData /\ last.res.ok) =>
           \A i \in DOMAIN last.res.val :
               /\ trips[last.res.val[i].trip_id] # NoRow
               /\ trips[last.res.val[i].trip_id].client_id = last.client_id

\* C4: c1 asks for t2, a trip of c2 with vendor v1, with whom c1 has a
\* contract of its own.
C4_ForeignTripNotFound ==
    /\ CalledCalculate
    /\ last.trip_id = "t2"
    /\ last.client_id = "c1"
    /\ trips["t2"].client_id = "c2"
    /\ \E c \in Contracts : c.client_id = "c1" /\ c.vendor_id = trips["t2"].vendor_id
    /\ ~last.res.ok
    /\ last.res.err = "ValueError"

\* The attempts of a fetch_trip_context call that failed.
FailedAttempts(f) == IF f.ok THEN f.attempts - 1 ELSE f.attempts

\* C5: fetch_trip_context on the caller's connection rolls that connection
\* back in every attempt that fails, so before the error propagates, and
\* never closes it.
C5_FetchRollsBackCallerConn ==
    CalledCalculate =>
        /\ last.res.fetch.rollbacks = FailedAttempts(last.res.fetch)
        /\ ~last.res.fetch.closed
        /\ ~last.res.fetch.ok => last.res.fetch.st = "idle"

\* C5: no row matches, in each of the three attempts, on the request's
\* connection.
C5_NoRowRolledBack ==
    /\ CalledCalculate
    /\ last.fails = {}
    /\ ~last.res.fetch.ok
    /\ last.res.fetch.err = "ValueError"
    /\ last.res.fetch.rollbacks = MaxAttempts
    /\ last.res.fetch.st = "idle"

\* C6: when calculate_trip_cost fails on the caller's connection, at
\* whichever step, the connection is rolled back when the exception
\* reaches the caller.
C6_FailedCalculationRolledBack ==
    (CalledCalculate /\ ~last.res.ok) =>
        /\ last.res.st = "idle"
        /\ last.res.svc_rollbacks = 1

\* C6: the strategy fails after the resolver read the trip, leaving the
\* connection inside a transaction.
C6_StrategyFailureRolledBack ==
    /\ CalledCalculate
    /\ ~last.res.ok
    /\ last.res.stage = "calculate"
    /\ last.res.fetch.ok
    /\ last.res.fetch.st = "intrans"
    /\ last.res.st = "idle"

-----------------------------------------------------------------------------
(* Properties of the connection pool (Spec). *)

Holding(r) == reqs[r].pc \in {"borrowed", "handled"}

\* C7: a request that borrowed a connection has put it back exactly once
\* when it ends, whatever the handler's outcome, and not before; a connection
\* is out of the pool only while a request holds it, so once all requests
\* have ended none remains borrowed.
C7_ReturnedExactlyOnce ==
    /\ \A r \in ReqIds :
         reqs[r].puts = IF reqs[r].pc = "done" /\ reqs[r].conn # NoConnId THEN 1 ELSE 0
    /\ \A c \in ConnIds :
         conns[c].where = "out" <=> \E r \in ReqIds : Holding(r) /\ reqs[r].conn = c
    /\ (\A r \in ReqIds : reqs[r].pc = "done") => FreeConns = ConnIds

\* C7: both requests have ended, one in a business error and one in an
\* unexpected exception, and each put its connection back.
C7_AllEndedAfterErrors ==
    /\ \A r \in ReqIds : reqs[r].pc = "done" /\ reqs[r].puts = 1
    /\ \E r \in ReqIds : reqs[r].outcome = "business"
    /\ \E r \in ReqIds : reqs[r].outcome = "unexpected"
    /\ FreeConns = ConnIds

\* C8: every putconn, by get_db_conn or by the startup initialisation,
\* happens on a connection that is rolled back (no open or aborted
\* transaction), and getconn never hands out a connection with an open or
\* aborted transaction.
C8_PoolNeverDirty ==
    /\ last.op = "putconn" => last.status_at_put = "idle"
    /\ (last.op = "getconn" /\ last.conn # NoConnId) => last.status = "idle"

\* C8: the startup initialisation puts back a connection whose transaction
\* is aborted, without a rollback.
C8_StartupPutsBackAborted ==
    /\ last.op = "putconn"
    /\ last.by = "startup"
    /\ last.status_at_put = "aborted"
    /\ ~last.rolled_back

-----------------------------------------------------------------------------
(* Properties of the batch (Spec) and of the cache (SpecCache). *)

CalledActiveContract == last.op = "get_active_contract"

\* C10: a get_active_contract call without a connection that follows a
\* successful one for the same tenant, the entry not evicted in between,
\* returns the same data and reads nothing from storage; with the read of a
\* first call that missed, the two calls read storage exactly once.
C10_SecondCallFromCache ==
    (CalledActiveContract /\ last.prev.op = "call" /\ last.prev.ok) =>
        /\ last.res.ok
        /\ last.res.val = last.prev.val
        /\ last.res.reads = 0
        /\ ~last.prev.hit => last.prev.reads + last.res.reads = 1

\* C10: the second call is answered from the cache after storage changed.
C10_HitAfterMiss ==
    /\ CalledActiveContract
    /\ last.prev.op = "call"
    /\ last.prev.ok
    /\ ~last.prev.hit
    /\ last.prev.reads = 1
    /\ last.res.ok
    /\ last.res.hit
    /\ versions # SeedVersions

-----------------------------------------------------------------------------
(* Properties of get_active_contract with a connection (SpecCache). *)

CalledContracts == last.op = "get_contracts"

\* The versions of the tenant's contracts that are valid at `now`, and among
\* them those that took effect last.
ValidVersions(client_id, now) ==
    { cv \in VersionIds :
        /\ \E c \in Contracts : c.client_id = client_id /\ c.id = versions[cv].contract_id
        /\ versions[cv].valid_from <= now
        /\ (versions[cv].valid_until # NoTime => now <= versions[cv].valid_until) }

CurrentVersions(client_id, now) ==
    { cv \in ValidVersions(client_id, now) :
        \A o \in ValidVersions(client_id, now) :
            versions[o].valid_from <= versions[cv].valid_from }

\* The contract data storage holds for version cv.
StoredContract(cv) ==
    [contract_id |-> versions[cv].contract_id,
     vendor_id |-> (CHOOSE c \in Contracts : c.id = versions[cv].contract_id).vendor_id,
     billing_model |-> Upper(versions[cv].billing_model),
     rules_config |-> versions[cv].rules_config]

-----------------------------------------------------------------------------
(* Properties of the cache's capacity and eviction (SpecCache). *)

\* The position of tenant t in the order of latest successful cached calls.
UsedAt(t) == CHOOSE i \in DOMAIN used : used[i] = t

Evicted == CacheKeys(cache) \ CacheKeys(cache')
Inserted == CacheKeys(cache') \ CacheKeys(cache)

\* C12: the cache never holds more than maxsize tenants (128 in the code);
\* an entry leaves it only when a miss is inserted into a full cache, one at
\* a time, and then it is the entry whose latest lookup or insertion is the
\* oldest among the cached ones.
C12_BoundedLruEviction ==
    [][/\ Len(cache') <= maxsize
       /\ Cardinality(CacheKeys(cache')) = Len(cache')
       /\ Cardinality(Evicted) <= 1
       /\ \A k \in Evicted :
            /\ Len(cache) = maxsize
            /\ Cardinality(Inserted) = 1
            /\ \A o \in CacheKeys(cache) \ {k} : UsedAt(k) < UsedAt(o)]_vars

\* C12: a miss filled the full cache and a tenant served earlier is no
\* longer cached.
C12_EvictionHappened ==
    /\ CalledActiveContract
    /\ last.res.ok
    /\ ~last.res.hit
    /\ Len(cache) = maxsize
    /\ \E i \in DOMAIN used : used[i] \notin CacheKeys(cache)

-----------------------------------------------------------------------------
(* Properties of the cache under concurrent calls (SpecConc). *)

\* The tuple is that of a contract of tenant client_id.
ContractOfTenant(val, client_id) ==
    \E c \in Contracts : c.id = val[1] /\ c.vendor_id = val[2] /\ c.client_id = client_id

\* C13: under every interleaving of concurrent no-connection calls the
\* cache holds at most maxsize entries, its order lists every cached key
\* exactly once, every entry holds a contract of the tenant it is keyed by,
\* and every call is answered with a contract of the tenant it asked for.
C13_CacheConsistentUnderInterleaving ==
    /\ Len(cache) <= maxsize
    /\ \A i, j \in DOMAIN cache : cache[i].key = cache[j].key => i = j
    /\ \A i \in DOMAIN cache : ContractOfTenant(cache[i].val, cache[i].key)
    /\ \A k \in CallIds :
         (calls[k].pc = "done" /\ calls[k].ok) =>
             ContractOfTenant(calls[k].val, calls[k].client_id)

\* C13: two calls for the same tenant both missed, read different versions
\* and both stored; the cache holds the tenant once.
C13_TwoMissesOneEntry ==
    /\ \A k \in {1, 2} : calls[k].pc = "done" /\ calls[k].ok /\ ~calls[k].hit
    /\ calls[1].client_id = calls[2].client_id
    /\ calls[1].val # calls[2].val
    /\ Cardinality({ i \in DOMAIN cache : cache[i].key = calls[1].client_id }) = 1

-----------------------------------------------------------------------------
(* Properties of what the resolver returns (Spec). *)

\* The trip is stored under the tenant that asks for it.
OwnTrip == trips[last.trip_id] # NoRow /\ trips[last.trip_id].client_id = last.client_id

\* C14: when fetch_trip_context succeeds, the rules it returns are those of
\* a version of a contract linking the trip's client and vendor whose
\* interval, both bounds included and no valid_until meaning no upper bound,
\* contains the trip's start time, and the billing model is that version's;
\* and when such a version exists for the tenant's trip, resolution does
\* not fail as not found.
C14_ResolvesCoveringVersion ==
    CalledCalculate =>
        /\ last.res.fetch.ok =>
               \E cv \in CoveringVersions(last.trip_id) :
                   /\ last.res.fetch.val.rules_config = versions[cv].rules_config
                   /\ Upper(versions[cv].billing_model) \in BillingModelType =>
                          last.res.fetch.val.model_enum = Upper(versions[cv].billing_model)
        /\ (OwnTrip /\ CoveringVersions(last.trip_id) # {}) =>
               (last.res.fetch.ok \/ last.res.fetch.err # "ValueError")
        /\ (OwnTrip /\ CoveringVersions(last.trip_id) # {} /\ last.fails # Attempts) =>
               last.res.fetch.ok

\* C14: t1 starts at the very end of version b1 and is resolved with b1's
\* rules.
C14_ResolvedAtIntervalEnd ==
    /\ CalledCalculate
    /\ last.trip_id = "t1"
    /\ trips["t1"].start_time = versions["b1"].valid_until
    /\ last.res.fetch.ok
    /\ last.res.fetch.val.rules_config = versions["b1"].rules_config
    /\ last.res.fetch.val.model_enum = "HYBRID"

\* The version whose row the successful resolution was built from.
SelectedVersion == versions[last.res.fetch.val.version]

\* C15: whatever billing-model tag the selected contract version stores,
\* fetch_trip_context returns the upper-cased tag when that is PER_TRIP,
\* FIXED_PACKAGE or HYBRID and HYBRID for every other tag, and a resolution
\* that reaches storage and finds a covering version succeeds whatever the
\* tag is.
C15_TagUppercasedOrHybrid ==
    CalledCalculate =>
        /\ last.res.fetch.ok =>
               last.res.fetch.val.model_enum =
                   IF Upper(SelectedVersion.billing_model) \in BillingModelType
                   THEN Upper(SelectedVersion.billing_model)
                   ELSE "HYBRID"
        /\ (OwnTrip /\ CoveringVersions(last.trip_id) # {} /\ last.fails = {}) =>
               /\ last.res.fetch.ok
               /\ last.res.fetch.val.model_enum \in BillingModelType

\* C15: t6 is resolved with version b5, whose tag "subscription" names no
\* billing model, and comes back as HYBRID.
C15_UnknownTagResolvedAsHybrid ==
    /\ CalledCalculate
    /\ last.trip_id = "t6"
    /\ last.res.fetch.ok
    /\ SelectedVersion.billing_model = "subscription"
    /\ last.res.fetch.val.model_enum = "HYBRID"

-----------------------------------------------------------------------------
(* Properties of create_config_safe as calculate_trip_cost applies it (Spec). *)

\* The raw rule configuration the resolver handed to the service.
RawRules == last.res.fetch.val.rules_config

\* The configuration keeps every recognised key of the input, drops every
\* other key and defaults every recognised key the input lacks.
Normalises(raw, cfg) ==
    /\ DOMAIN cfg = ConfigFields
    /\ \A k \in ConfigFields :
           cfg[k] = IF k \in DOMAIN raw.o THEN raw.o[k]
                    ELSE IF k = "incentive_rules" THEN JNull
                    ELSE IF k = "currency" THEN JStr("USD")
                    ELSE JNum(0)

\* C16: for every raw rule configuration the resolver read from storage,
\* create_config_safe does not raise, and the configuration it returns keeps
\* every recognised key's input value, drops every unrecognised key and
\* gives every absent recognised key its default.
C16_ConfigNeverRaises ==
    (CalledCalculate /\ last.res.fetch.ok) =>
        /\ last.res.stage # "normalise"
        /\ create_config_safe(RawRules).ok
        /\ Normalises(RawRules, create_config_safe(RawRules).val)

\* C16: t5 is resolved with version b4, whose rules_config is JSON null,
\* and the calculation fails in create_config_safe with AttributeError.
C16_NullRulesRaise ==
    /\ CalledCalculate
    /\ last.trip_id = "t5"
    /\ last.res.fetch.ok
    /\ RawRules = JNull
    /\ ~last.res.ok
    /\ last.res.stage = "normalise"
    /\ last.res.err = "AttributeError"

-----------------------------------------------------------------------------
(* Properties of the three strategies on single calls (SpecCalc). *)

\* C17: whatever the distance, the start hour, the carpool flag and the
\* rule configuration, a result of the FIXED_PACKAGE strategy has
\* base_cost 0 and tax_amount 0.
C17_FixedPackageIsFree ==
    (Calculated /\ calcIn.model = "FIXED_PACKAGE") =>
        /\ calcOut.val.base_cost = 0
        /\ calcOut.val.tax_amount = 0

\* C17: a 10 km carpool night trip under a package whose rules carry a
\* package price and a carpool bonus is priced at base 0 and tax 0.
C17_PackageNightCarpoolTripFree ==
    /\ Calculated
    /\ calcIn.model = "FIXED_PACKAGE"
    /\ calcIn.rules = RulesPackage
    /\ calcIn.trip.distance_km = 10
    /\ calcIn.trip.start_hour = 22
    /\ calcIn.trip.is_carpool
    /\ calcOut.val.base_cost = 0
    /\ calcOut.val.tax_amount = 0
    /\ calcOut.val.total_cost = 5000

\* The rule configuration the strategy was called with.
CalcConfig == create_config_safe(calcIn.rules).val

\* The start hour is in the night window 20..23, 0..5.
NightHours == (20..23) \cup (0..5)

\* No night-shift surcharge applies to the trip: it starts in the day, or
\* the rules carry no surcharge.
NoSurcharge ==
    \/ calcIn.trip.start_hour \notin NightHours
    \/ Falsy(CalcConfig["night_shift_surcharge"])

\* The rules' carpool bonus in milli, 0 when they carry none.
BonusOf(cfg) ==
    IF /\ cfg["incentive_rules"].t = "obj"
       /\ "carpool_bonus" \in DOMAIN cfg["incentive_rules"].o
       /\ cfg["incentive_rules"].o["carpool_bonus"].t = "num"
    THEN cfg["incentive_rules"].o["carpool_bonus"].n
    ELSE 0

\* No incentive is due: the trip is not carpool or the rules carry no bonus.
NoIncentive == ~calcIn.trip.is_carpool \/ BonusOf(CalcConfig) = 0

\* A trip of distance 0 without surcharge and incentive was priced by the
\* HYBRID or the PER_TRIP strategy.
ZeroTripPriced ==
    /\ Calculated
    /\ calcIn.model \in {"HYBRID", "PER_TRIP"}
    /\ calcIn.trip.distance_km = 0
    /\ NoSurcharge
    /\ NoIncentive

\* The rules' base fare in milli, 0 when they carry none.
BaseFareOf(cfg) == IF cfg["base_fare"].t = "num" THEN cfg["base_fare"].n ELSE 0

NumberOf(cfg, k) == IF cfg[k].t = "num" THEN cfg[k].n ELSE 0

\* The trip and rules of the specification's worked HYBRID example: 10 km,
\* start hour 22, surcharge 20, rate 5.
HybridExample ==
    /\ calcIn.model = "HYBRID"
    /\ calcIn.trip.distance_km = 10
    /\ calcIn.trip.start_hour = 22
    /\ NumberOf(CalcConfig, "night_shift_surcharge") = 20000
    /\ NumberOf(CalcConfig, "per_km_rate_after_limit") = 5000

\* C19: the HYBRID strategy's base cost, in cents, is night_shift_surcharge
\* + distance * per_km_rate_after_limit when the start hour is in 20..23 or
\* 0..5, and distance * per_km_rate_after_limit alone when it is in 6..19;
\* the example trip, not carpool, is priced at base_cost 70.00, tax_amount
\* 12.60 and total_cost 82.60.
C19_HybridNightSurcharge ==
    (Calculated /\ calcIn.model = "HYBRID") =>
        /\ calcIn.trip.start_hour \in NightHours =>
               calcOut.val.base_cost =
                   Round2(NumberOf(CalcConfig, "night_shift_surcharge")
                          + calcIn.trip.distance_km
                            * NumberOf(CalcConfig, "per_km_rate_after_limit"))
        /\ calcIn.trip.start_hour \in 6..19 =>
               calcOut.val.base_cost =
                   Round2(calcIn.trip.distance_km
                          * NumberOf(CalcConfig, "per_km_rate_after_limit"))
        /\ (HybridExample /\ ~calcIn.trip.is_carpool) =>
               /\ calcOut.val.base_cost = 7000
               /\ calcOut.val.tax_amount = 1260
               /\ calcOut.val.total_cost = 8260

\* C19: the example trip, not carpool, has been priced at 70.00, 12.60 and
\* 82.60.
C19_HybridExamplePriced ==
    /\ Calculated
    /\ HybridExample
    /\ ~calcIn.trip.is_carpool
    /\ calcOut.val.base_cost = 7000
    /\ calcOut.val.tax_amount = 1260
    /\ calcOut.val.total_cost = 8260

\* The same trip with the carpool flag flipped, priced under the same model
\* and rules.
OtherCarpool ==
    calculate_cost(calcIn.model,
                   [calcIn.trip EXCEPT !.is_carpool = ~calcIn.trip.is_carpool],
                   CalcConfig)

\* The absolute difference of two amounts.
Gap(a, b) == IF a >= b THEN a - b ELSE b - a

\* C20: in every strategy employee_incentive equals the rules' carpool_bonus
\* when the trip is carpool and the rules carry one, and 0 otherwise; the
\* same trip priced with and without carpool has the same base_cost and
\* tax_amount, and its total_cost differs by exactly the bonus.
C20_CarpoolBonusOnly ==
    (Calculated /\ OtherCarpool.ok) =>
        /\ calcOut.val.employee_incentive * MilliPerCent =
               IF calcIn.trip.is_carpool THEN BonusOf(CalcConfig) ELSE 0
        /\ calcOut.val.base_cost = OtherCarpool.val.base_cost
        /\ calcOut.val.tax_amount = OtherCarpool.val.tax_amount
        /\ Gap(calcOut.val.total_cost, OtherCarpool.val.total_cost) * MilliPerCent
               = BonusOf(CalcConfig)

\* C20: a 1 km HYBRID carpool day trip at rate 0.084 with a bonus of 0.004
\* reports employee_incentive 0.00 and total_cost 0.11, while the same trip
\* without carpool totals 0.10.
C20_SubCentBonusMovesTotal ==
    /\ Calculated
    /\ calcIn.model = "HYBRID"
    /\ calcIn.rules = RulesFine
    /\ calcIn.trip.distance_km = 1
    /\ calcIn.trip.start_hour = 12
    /\ calcIn.trip.is_carpool
    /\ BonusOf(CalcConfig) = 4
    /\ calcOut.val.employee_incentive = 0
    /\ calcOut.val.total_cost = 11
    /\ OtherCarpool.val.total_cost = 10

-----------------------------------------------------------------------------
(* Properties of calculations through the shared instances (SpecShared). *)

RunDone(k) == runs[k].pc = "done"

\* C21: two calls of calculate_cost with identical trip data and rule
\* configuration return identical results, whatever other calculations run
\* through the same strategy instance in between or at the same time; each
\* result is the one the strategy gives when called alone.
C21_SameInputSameResult ==
    \A i \in RunIds : \A j \in RunIds :
        (RunDone(i) /\ RunDone(j) /\ runs[i].input = runs[j].input) =>
            /\ runs[i].out = runs[j].out
            /\ runs[i].out = calculate_cost(runs[i].input.model, runs[i].input.trip,
                                            runs[i].input.rules)

\* C21: two HYBRID calls for the same trip have returned the same result
\* while a call for another trip is in the middle of its accumulation.
C21_TwoEqualRunsAroundAnother ==
    /\ RunDone(1)
    /\ RunDone(2)
    /\ runs[1].input = runs[2].input
    /\ runs[1].input.model = "HYBRID"
    /\ runs[1].out = runs[2].out
    /\ runs[3].pc = "distance"
    /\ runs[3].input # runs[1].input
    /\ runs[3].input.model = "HYBRID"

-----------------------------------------------------------------------------
(* Properties of the carpool override (Spec). *)

\* The carpool value call c asks to price with: the override when one is
\* given, the stored trip's flag otherwise.
EffectiveCarpool(c) ==
    IF c.override = "True" THEN TRUE
    ELSE IF c.override = "False" THEN FALSE
    ELSE trips[c.trip_id].is_carpool

\* The result of call c is the strategy's result for the resolved trip with
\* the effective carpool value.
PricedWithEffective(c) ==
    c.res.val =
        calculate_cost(c.res.fetch.val.model_enum,
                       [c.res.fetch.val.trip_data EXCEPT
                            !.is_carpool = EffectiveCarpool(c)],
                       create_config_safe(c.res.fetch.val.rules_config).val).val

\* C22: a calculate_trip_cost call with a carpool override prices the trip
\* with the override whatever the stored trip says, a call without one
\* prices it with the stored flag, and in both cases the call leaves the
\* trips table as it was.
C22_OverrideDecidesCarpool ==
    [][ \A r \in ReqIds :
          ( /\ reqs[r].pc = "borrowed"
            /\ reqs'[r].pc = "handled"
            /\ last'.op = "calculate_trip_cost" ) =>
              /\ trips' = trips
              /\ last'.res.ok => PricedWithEffective(last') ]_vars

\* C22: t2 is stored as a carpool trip and its rules carry a bonus; priced
\* with the override False it earns no incentive, and the stored trip is
\* still a carpool trip.
C22_OverrideBeatsStoredFlag ==
    /\ CalledCalculate
    /\ last.trip_id = "t2"
    /\ last.override = "False"
    /\ last.res.ok
    /\ last.res.val.employee_incentive = 0
    /\ trips["t2"].is_carpool

-----------------------------------------------------------------------------
(* Properties of the error responses (Spec). *)

\* The last request failed with something other than a business error: a
\* storage failure or a programming defect.
UnexpectedFailure ==
    /\ last.op \in {"calculate_trip_cost", "get_client_billing_data"}
    /\ ~last.res.ok
    /\ last.res.err # "ValueError"

\* C23: every endpoint answers an unexpected internal failure with a 5xx
\* response whose body carries only the generic message, never the text of
\* the underlying exception.
C23_UnexpectedFailureGeneric ==
    UnexpectedFailure =>
        /\ last.response.status_code >= 500
        /\ last.response.detail = GenericDetail

\* C23: the trip listing of GET /secure/billing/stats fails on every
\* attempt with a storage error and the 500 response carries str(e).
C23_StatsLeaksExceptionText ==
    /\ CalledBillingData
    /\ ~last.res.ok
    /\ last.res.err = "DatabaseError"
    /\ last.response.status_code = 500
    /\ last.response.detail = ExceptionText("DatabaseError")

-----------------------------------------------------------------------------
(* Properties of the CSV report on a dirty connection (Spec). *)

CalledReport == last.op = "generate_client_report"

\* C24: generate_client_report on a connection whose transaction is already
\* aborted, with storage answering otherwise, still returns the CSV report
\* (the header and one record per listed trip): the first trip-listing read
\* fails and rolls the connection back, the second read succeeds, and no
\* error reaches the caller.
C24_ReportSurvivesAbortedConnection ==
    (CalledReport /\ last.st_before = "aborted" /\ last.fails # Attempts) =>
        /\ last.res.ok
        /\ last.response.status_code = 200
        /\ Len(last.res.val) = 1 + Len(last.listing)
        /\ last.res.val[1] = CsvHeader
        /\ \A i \in DOMAIN last.listing :
               last.res.val[i + 1][1] = last.listing[i]
        /\ fetch_client_trips(last.client_id, "aborted", last.fails,
                              last.listing).attempts = 2

\* C24: a report for c1, which has trips, was generated on a connection
\* that came out of the pool with an aborted transaction.
C24_ReportOnAbortedConnection ==
    /\ CalledReport
    /\ last.st_before = "aborted"
    /\ last.fails = {}
    /\ last.client_id = "c1"
    /\ last.res.ok
    /\ Len(last.res.val) > 1

-----------------------------------------------------------------------------
(* Properties of the retried repository calls (Spec). *)

CalledInsert == last.op = "insert_new_trip" /\ last.res.attempts > 0

\* The trip listing of the last batch call, as fetch_client_trips ran it.
LastListing ==
    fetch_client_trips(last.client_id, last.st_before, last.fails, last.listing)

\* Call a stopped within the allowed attempts, and gave up only after the
\* last one.
WithinAttempts(a) ==
    /\ a.attempts \in 1 .. 3
    /\ ~a.ok => a.attempts = 3

\* C25: fetch_trip_context, insert_trip and fetch_client_trips make at most
\* 3 attempts per call; a call whose every attempt fails ends by raising the
\* error of its last attempt; a billing request for a trip that cannot be
\* resolved ends, after the third attempt, in an error response.
C25_AtMostThreeAttempts ==
    /\ CalledCalculate =>
           /\ WithinAttempts(last.res.fetch)
           /\ ~last.res.fetch.ok =>
                  /\ last.res.fetch.err =
                         IF 3 \in last.fails THEN "DatabaseError" ELSE "ValueError"
                  /\ ~last.res.ok
                  /\ last.res.err = last.res.fetch.err
                  /\ last.response.status_code >= 400
           /\ (~OwnTrip \/ Unresolvable(last.trip_id)) => ~last.res.fetch.ok
    /\ CalledInsert =>
           /\ WithinAttempts(last.res)
           /\ ~last.res.ok => last.response.status_code >= 400
    /\ (CalledBillingData \/ CalledReport) =>
           /\ WithinAttempts(LastListing)
           /\ ~LastListing.ok =>
                  /\ ~last.res.ok
                  /\ last.res.err = LastListing.err
                  /\ last.response.status_code >= 400

\* C25: the billing request for t3, which no contract covers, met a storage
\* failure on its first attempt and "not found" on the next two, and was
\* answered 400 with the last attempt's error after three attempts.
C25_InvalidTripFailsAfterThree ==
    /\ CalledCalculate
    /\ last.trip_id = "t3"
    /\ last.client_id = "c1"
    /\ last.fails = {1}
    /\ last.res.fetch.attempts = 3
    /\ last.res.err = "ValueError"
    /\ last.response.status_code = 400

-----------------------------------------------------------------------------
(* Properties of the batch over one shared connection (Spec). *)

\* The row of the i-th listed trip of the last batch call when that trip is
\* priced alone on a clean connection, storage treating it the same way.
RowAlone(i, pref) ==
    BillingRow([rows |-> <<>>, st |-> "idle"], last.res.listed[i],
               calculate_trip_cost(last.listing[i], last.client_id, "idle", "None",
                                   IF i \in last.bad THEN Attempts ELSE {},
                                   pref)).rows[1]

\* C26: in get_client_billing_data over one shared connection every trip's
\* row, SUCCESS with its costs or ERROR with its message, is the row that
\* trip gets when priced alone on a clean connection: a trip whose pricing
\* failed has left the connection rolled back for the next one.
C26_RowsAsIfPricedAlone ==
    (CalledBillingData /\ last.res.ok) =>
        \A i \in DOMAIN last.listing :
            \E pref \in Prefs : last.res.val[i] = RowAlone(i, pref)

\* C26: in a batch on the caller's connection a trip failed on a storage
\* error at every attempt and the trip after it was priced.
C26_SuccessAfterStorageFailure ==
    /\ CalledBillingData
    /\ last.res.ok
    /\ \E i \in DOMAIN last.listing :
           /\ i \in last.bad
           /\ i + 1 \in DOMAIN last.listing
           /\ last.res.val[i].status = "ERROR"
           /\ last.res.val[i].error = "DatabaseError"
           /\ last.res.val[i + 1].status = "SUCCESS"

-----------------------------------------------------------------------------
(* Properties of the trip insert (Spec). *)

\* C27: insert_new_trip stores at most one row per call across its retry
\* attempts: when it returns a record, the row with that trip id is
\* committed as requested, and when it raises, no row with that trip id is
\* committed.
C27_InsertAllOrNothing ==
    CalledInsert =>
        /\ last.res.ok =>
               /\ trips[last.trip_id] = InputRow(last.client_id, last.vendor_id)
               /\ last.res.val.trip_id = last.trip_id
        /\ ~last.res.ok => trips[last.trip_id] = NoRow

\* C27: POST /trips raised after an attempt whose commit reached the server
\* without its acknowledgement reaching the client, and the trip is stored.
C27_RaisedButCommitted ==
    /\ CalledInsert
    /\ last.route = "/trips"
    /\ last.how = "commit_applied"
    /\ last.fails = {1}
    /\ ~last.res.ok
    /\ last.res.attempts = 3
    /\ trips[last.trip_id] # NoRow

-----------------------------------------------------------------------------
(* Properties of the two paths of get_active_contract (SpecCache). *)

\* What a call without a connection returns for the tenant and instant of
\* the last call, from the storage and cache of this state.
WithoutConn(pref) ==
    get_active_contract(last.client_id, NoConn, last.now, FALSE, pref)

\* The tenant of the last call has no cache entry.
ColdCache == last.client_id \notin CacheKeys(cache)

\* C28: for one storage state and a cold cache, get_active_contract returns
\* the same summary, field for field (contract id, vendor id, billing-model
\* tag, rule configuration), with a connection and without one.
C28_SameSummaryEitherWay ==
    (CalledContracts /\ last.res.ok /\ ColdCache) =>
        \E pref \in Prefs :
            /\ WithoutConn(pref).ok
            /\ WithoutConn(pref).val = last.res.val

\* C28: on a cold cache the call with a connection returned the rule
\* configuration as the stored object, and the call without one returns it
\* as a string.
C28_RulesObjectVersusString ==
    /\ CalledContracts
    /\ last.res.ok
    /\ ColdCache
    /\ last.res.val.rules_config.t = "obj"
    /\ \A pref \in Prefs :
           /\ WithoutConn(pref).ok
           /\ WithoutConn(pref).val.contract_id = last.res.val.contract_id
           /\ WithoutConn(pref).val.rules_config = PyStr(last.res.val.rules_config)

\* The dict a call without a connection builds from a cached tuple.
FromTuple(val) ==
    [contract_id |-> val[1], vendor_id |-> val[2], billing_model |-> val[3],
     rules_config |-> val[4]]

-----------------------------------------------------------------------------
(* Properties of POST /secure/trips (Spec). *)

\* The trips a step stores.
StoredByStep == { t \in TripIds : trips'[t] # trips[t] }

\* C30: a POST /secure/trips request stores nothing for a VIEWER and nothing
\* for a VENDOR_ADMIN who names a vendor other than their own; it stores at
\* most one trip, a new one, and that trip's tenant is the client id of the
\* authenticated user.
C30_SecureTripsScoped ==
    [][(last'.op = "insert_new_trip" /\ last'.route = "/secure/trips") =>
          /\ last'.user.role = "VIEWER" => StoredByStep = {}
          /\ (last'.user.role = "VENDOR_ADMIN"
                 /\ last'.vendor_id # last'.user.vendor_id) => StoredByStep = {}
          /\ \A t \in StoredByStep :
                /\ trips[t] = NoRow
                /\ t = last'.trip_id
                /\ last'.user.client_id \in Tenants
                /\ trips'[t].client_id = last'.user.client_id]_vars

\* C30: a VENDOR_ADMIN stored a trip of their own vendor under their own
\* client.
C30_VendorAdminStoredOwnTrip ==
    /\ last.op = "insert_new_trip"
    /\ last.route = "/secure/trips"
    /\ last.user.role = "VENDOR_ADMIN"
    /\ last.res.ok
    /\ last.response.status_code = 200
    /\ trips[last.trip_id] # NoRow
    /\ trips[last.trip_id].client_id = last.user.client_id
    /\ trips[last.trip_id].vendor_id = last.user.vendor_id

====
